---- MODULE Spec2Model ----
(***************************************************************************)
(* State-machine model of mario_online: two Game instances (host = player  *)
(* 0, client = player 1) joined by an unordered, lossy PeerJS data channel *)
(* (reliable:false).  Handlers of src/js/game.js are operators over the    *)
(* record of one instance; actions apply them to G[i].                     *)
(*                                                                         *)
(* Positions are fixed-point integers, SUB units per pixel.  The tile grid *)
(* is the window Cells of the level map, which holds no enemy, coin or     *)
(* power-up spawn; a player walks, by the keys held, on the stretch Ground *)
(* at the goal line.  A run starts either right after construction (the    *)
(* client fed with messages) or in a session in progress.                  *)
(***************************************************************************)
EXTENDS Integers, Sequences, FiniteSets, TLC

\* ------------------------------------------------------------------ bounds
MaxEnemies  == 2    \* host enemies alive at once: a STATE message carries ids 1..MaxEnemies
MaxCreated  == 3    \* mirrors a client creates in one explored run
MaxList     == 2    \* projectiles / drawn objects / chat lines / bursts kept in one explored run
MaxTicks    == 3    \* animation frames the two participants run in one explored run
MaxInFlight == 2    \* messages in flight towards one participant

\* ------------------------------------------------------- program constants
TILE          == 32
SYNC_RATE     == 3
LEVEL_COUNT   == 2
WIN_TICKS     == 90
DEAD_TICKS    == 180
INVULN_FRAMES == 120
START_LIVES   == 3
MAX_SLOTS     == 5
SNAP_DIST     == 120
CHAT_KEEP     == 8
CHAT_TIMER    == 420
FIRST_ENEMY_ID == 1
FIRST_COLL_ID  == 1000
FIRST_ITEM_ID  == 8000

SUB == 4 * 4 * 4          \* fixed-point units per pixel: three exact x += dx*0.25 steps
Px(n) == n * SUB

T_AIR    == 0
T_GROUND == 1
T_BRICK  == 2
T_QBLOCK == 3
T_QUSED  == 4

POWER_SMALL == 0
POWER_BIG   == 1
POWER_FIRE  == 2

HOST   == 0
CLIENT == 1
Inst   == {HOST, CLIENT}

\* ------------------------------------------------------------------ helpers
Abs(a)    == IF a < 0 THEN 0 - a ELSE a

RECURSIVE SelectSeqIdx(_, _, _)
\* Index of the first element of seq satisfying Test from position i on, 0 if none (Array.find).
SelectSeqIdx(seq, Test(_), i) ==
  IF i > Len(seq) THEN 0
  ELSE IF Test(seq[i]) THEN i
  ELSE SelectSeqIdx(seq, Test, i + 1)

FindIdx(seq, Test(_)) == SelectSeqIdx(seq, Test, 1)

SeqIds(seq) == {seq[k].id : k \in 1..Len(seq)}

\* F applied to the value of v: statement sequencing, v computed once.
Then(v, F(_)) == CHOOSE y \in {F(x) : x \in {v}} : TRUE

\* Math.round on a fixed-point value: nearest whole pixel, halves up.
RoundPx(v) == ((2 * v + SUB) \div (2 * SUB)) * SUB

\* ------------------------------------------------------------------ items
ITEM_MACHINE_GUN == "machine_gun"
ITEM_ROCKET      == "rocket"
ITEM_GRENADE     == "grenade"
ITEM_GRAPPLE     == "grapple"
ITEM_SWORD       == "sword"
ITEM_PENCIL      == "pencil"

AMMO_INF  == 0 - 1      \* Infinity
AMMO_NULL == 0 - 2      \* null: what JSON makes of Infinity

ITEM_MAX_AMMO(type) ==
  CASE type = ITEM_MACHINE_GUN -> 40
    [] type = ITEM_ROCKET      -> 5
    [] type = ITEM_GRENADE     -> 4
    [] OTHER                   -> AMMO_INF

InventorySlot(type) == [type |-> type, ammo |-> ITEM_MAX_AMMO(type)]

\* ------------------------------------------------------------------ player
\* The box of a player: BIG_W and BIG_H equal SMALL_W and SMALL_H.
SMALL_W == 24
SMALL_H == 28

Player(id, spawnX, spawnY) ==
  [ id |-> id, x |-> spawnX, y |-> spawnY,
    power |-> POWER_SMALL, lives |-> START_LIVES, coins |-> 0, score |-> 0,
    dead |-> FALSE, deadTimer |-> 0, deathHandled |-> FALSE, invuln |-> 0,
    vy |-> 0, stompGrace |-> 0,
    inventory |-> <<>>, activeSlot |-> 0, grappleHook |-> FALSE,
    gunTimer |-> 0, swordCooldown |-> 0,
    events |-> <<>>, spawnX |-> spawnX, spawnY |-> spawnY ]

\* addItem without the test of the length.
addItemUncapped(p, type) ==
  [p EXCEPT !.inventory = Append(@, InventorySlot(type))]

addItem(p, type) ==
  IF Len(p.inventory) >= MAX_SLOTS THEN p
  ELSE [p EXCEPT !.inventory = Append(@, InventorySlot(type))]

grow(p, newPower) ==
  IF newPower <= p.power THEN p ELSE [p EXCEPT !.power = newPower]

\* kill(fallen): the dead sprite hops unless the player fell off the level.
kill(p, fallen) ==
  IF p.dead THEN p
  ELSE [p EXCEPT !.dead = TRUE, !.deadTimer = 0, !.deathHandled = FALSE,
                 !.vy = IF fallen THEN 0 ELSE 0 - Px(10),
                 !.events = Append(@, [type |-> "DIED"])]

hurtThroughInvuln(p) ==
  IF p.dead THEN p
  ELSE IF p.power = POWER_SMALL THEN kill(p, FALSE)
  ELSE [p EXCEPT !.power = POWER_SMALL, !.invuln = INVULN_FRAMES,
                 !.events = Append(@, [type |-> "HURT"])]

\* hurt(): called when hit by an enemy or a hazard.
hurt(p) ==
  IF p.invuln > 0 \/ p.dead THEN p
  ELSE IF p.power = POWER_SMALL THEN kill(p, FALSE)
  ELSE [p EXCEPT !.power = POWER_SMALL, !.invuln = INVULN_FRAMES,
                 !.events = Append(@, [type |-> "HURT"])]

\* JSON.stringify of a number: Infinity becomes null.
JsonNum(a) == IF a = AMMO_INF THEN AMMO_NULL ELSE a

PlayerSerialize(p) ==
  [ id |-> p.id, x |-> RoundPx(p.x), y |-> RoundPx(p.y),
    power |-> p.power, dead |-> p.dead, invuln |-> p.invuln,
    coins |-> p.coins, lives |-> p.lives, score |-> p.score,
    activeSlot |-> p.activeSlot,
    inventory |-> [k \in 1..Len(p.inventory) |->
                     [type |-> p.inventory[k].type, ammo |-> JsonNum(p.inventory[k].ammo)]] ]

\* x += dx * 0.25, at the fixed-point resolution.
Lerp(v, target) == v + ((target - v) \div 4)

\* applyState with the threshold tested on each axis by itself.
PlayerApplyStateAxisGate(p, s) ==
  LET far == Abs(s.x - p.x) > Px(SNAP_DIST) \/ Abs(s.y - p.y) > Px(SNAP_DIST)
  IN [p EXCEPT
        !.x = IF far THEN s.x ELSE Lerp(p.x, s.x),
        !.y = IF far THEN s.y ELSE Lerp(p.y, s.y),
        !.power = s.power,
        !.dead = s.dead,
        !.invuln = s.invuln,
        !.coins = s.coins,
        !.lives = s.lives,
        !.score = s.score,
        !.inventory = [k \in 1..Len(s.inventory) |->
                         [type |-> s.inventory[k].type, ammo |-> s.inventory[k].ammo]],
        !.activeSlot = s.activeSlot]

PlayerApplyState(p, s) ==
  LET dx  == s.x - p.x
      dy  == s.y - p.y
      \* dx*dx + dy*dy > 120*120, split so that the products stay small
      far == \/ Abs(dx) > Px(SNAP_DIST)
             \/ Abs(dy) > Px(SNAP_DIST)
             \/ dx * dx + dy * dy > Px(SNAP_DIST) * Px(SNAP_DIST)
  IN [p EXCEPT
        !.x = IF far THEN s.x ELSE Lerp(p.x, s.x),
        !.y = IF far THEN s.y ELSE Lerp(p.y, s.y),
        !.power = s.power,
        !.dead = s.dead,
        !.invuln = s.invuln,
        !.coins = s.coins,
        !.lives = s.lives,
        !.score = s.score,
        !.inventory = [k \in 1..Len(s.inventory) |->
                         [type |-> s.inventory[k].type, ammo |-> s.inventory[k].ammo]],
        !.activeSlot = s.activeSlot]

\* ------------------------------------------------------------------ enemies
EnemyTypes == {"Goomba", "Koopa", "FireBro", "IceGoomba", "Lizard", "Flyer"}

EnemyH(type) ==
  CASE type = "Koopa"   -> 36
    [] type = "FireBro" -> 32
    [] type = "Lizard"  -> 34
    [] type = "Flyer"   -> 32
    [] OTHER            -> 28

Enemy(id, type, x, y) ==
  [ id |-> id, type |-> type, x |-> x, y |-> y, dead |-> FALSE, remove |-> FALSE,
    shelled |-> FALSE, shellMoving |-> FALSE, h |-> EnemyH(type), deathTimer |-> 0,
    w |-> CASE type \in {"Koopa", "FireBro"} -> 26
            [] type = "Lizard" -> 30
            [] OTHER -> 28,
    \* _spd, in hundredths of a pixel per tick
    spd |-> CASE type = "Koopa"     -> 150
              [] type = "FireBro"   -> 80
              [] type = "IceGoomba" -> 96
              [] type = "Lizard"    -> 220
              [] type = "Flyer"     -> 160
              [] OTHER              -> 120,
    stomps |-> 0, hasWings |-> type = "Flyer" ]

STOMP_SCORE == 100
SHELL_SCORE == 200

EnemyStompSingleStage(e) ==
  IF e.dead THEN [e |-> e, pts |-> 0]
  ELSE CASE e.type = "Koopa" ->
              IF ~e.shelled
              THEN [e |-> [e EXCEPT !.shelled = TRUE, !.shellMoving = FALSE,
                                    !.h = 24, !.y = @ + Px(12)],
                    pts |-> STOMP_SCORE]
              ELSE [e |-> [e EXCEPT !.shellMoving = TRUE], pts |-> 0]
         [] e.type = "Lizard" ->
              [e |-> [e EXCEPT !.stomps = @ + 1, !.dead = TRUE], pts |-> 200]
         [] e.type = "Flyer" ->
              IF e.hasWings
              THEN [e |-> [e EXCEPT !.hasWings = FALSE, !.spd = 180], pts |-> 100]
              ELSE [e |-> [e EXCEPT !.dead = TRUE], pts |-> 200]
         [] e.type = "FireBro"   -> [e |-> [e EXCEPT !.dead = TRUE], pts |-> 200]
         [] e.type = "IceGoomba" -> [e |-> [e EXCEPT !.dead = TRUE], pts |-> 150]
         [] OTHER                -> [e |-> [e EXCEPT !.dead = TRUE], pts |-> STOMP_SCORE]

\* A stomp that brings a moving shell to rest.
EnemyStompStopsShell(e) ==
  IF e.dead THEN [e |-> e, pts |-> 0]
  ELSE CASE e.type = "Koopa" ->
              IF ~e.shelled
              THEN [e |-> [e EXCEPT !.shelled = TRUE, !.shellMoving = FALSE,
                                    !.h = 24, !.y = @ + Px(12)],
                    pts |-> STOMP_SCORE]
              ELSE [e |-> [e EXCEPT !.shellMoving = ~@], pts |-> 0]
         [] e.type = "Lizard" ->
              IF e.stomps + 1 = 1
              THEN [e |-> [e EXCEPT !.stomps = 1, !.h = 18, !.y = @ + Px(16), !.spd = 100],
                    pts |-> 100]
              ELSE [e |-> [e EXCEPT !.stomps = @ + 1, !.dead = TRUE], pts |-> 200]
         [] e.type = "Flyer" ->
              IF e.hasWings
              THEN [e |-> [e EXCEPT !.hasWings = FALSE, !.spd = 180], pts |-> 100]
              ELSE [e |-> [e EXCEPT !.dead = TRUE], pts |-> 200]
         [] e.type = "FireBro"   -> [e |-> [e EXCEPT !.dead = TRUE], pts |-> 200]
         [] e.type = "IceGoomba" -> [e |-> [e EXCEPT !.dead = TRUE], pts |-> 150]
         [] OTHER                -> [e |-> [e EXCEPT !.dead = TRUE], pts |-> STOMP_SCORE]

\* enemy.stomp(player): the enemy after the call and the score it returns (the kick
\* direction of a shell is not tracked).
EnemyStomp(e) ==
  IF e.dead THEN [e |-> e, pts |-> 0]
  ELSE CASE e.type = "Koopa" ->
              IF ~e.shelled
              THEN [e |-> [e EXCEPT !.shelled = TRUE, !.shellMoving = FALSE,
                                    !.h = 24, !.y = @ + Px(12)],
                    pts |-> STOMP_SCORE]
              ELSE [e |-> [e EXCEPT !.shellMoving = TRUE], pts |-> 0]
         [] e.type = "Lizard" ->
              IF e.stomps + 1 = 1
              THEN [e |-> [e EXCEPT !.stomps = 1, !.h = 18, !.y = @ + Px(16), !.spd = 100],
                    pts |-> 100]
              ELSE [e |-> [e EXCEPT !.stomps = @ + 1, !.dead = TRUE], pts |-> 200]
         [] e.type = "Flyer" ->
              IF e.hasWings
              THEN [e |-> [e EXCEPT !.hasWings = FALSE, !.spd = 180], pts |-> 100]
              ELSE [e |-> [e EXCEPT !.dead = TRUE], pts |-> 200]
         [] e.type = "FireBro"   -> [e |-> [e EXCEPT !.dead = TRUE], pts |-> 200]
         [] e.type = "IceGoomba" -> [e |-> [e EXCEPT !.dead = TRUE], pts |-> 150]
         [] OTHER                -> [e |-> [e EXCEPT !.dead = TRUE], pts |-> STOMP_SCORE]

\* enemy.kill(): hit by a fireball, a shell, a projectile or a blast.
EnemyKill(e) ==
  IF e.dead THEN [e |-> e, pts |-> 0]
  ELSE [e |-> [e EXCEPT !.dead = TRUE],
        pts |-> CASE e.type = "Goomba"    -> STOMP_SCORE
                  [] e.type = "IceGoomba" -> 150
                  [] e.type = "Koopa"     -> SHELL_SCORE
                  [] OTHER                -> 200]

EnemySerialize(e) ==
  [ id |-> e.id, type |-> e.type, x |-> RoundPx(e.x), y |-> RoundPx(e.y),
    dead |-> e.dead, remove |-> e.remove,
    shelled |-> e.shelled, shellMoving |-> e.shellMoving, h |-> e.h ]

EnemySmoothedApplyState(e, s) ==
  [e EXCEPT !.x = Lerp(e.x, s.x), !.y = Lerp(e.y, s.y), !.dead = s.dead, !.remove = s.remove,
            !.shelled = s.shelled, !.shellMoving = s.shellMoving, !.h = s.h]

EnemyApplyState(e, s) ==
  [e EXCEPT !.x = s.x, !.y = s.y, !.dead = s.dead, !.remove = s.remove,
            !.shelled = s.shelled, !.shellMoving = s.shellMoving, !.h = s.h]

\* -------------------------------------------------------------- collectibles
PowerUp(id, x, y, type) ==
  [id |-> id, x |-> x, y |-> y, type |-> type, dead |-> FALSE, emerging |-> TRUE]

WeaponCrate(id, x, y) == [id |-> id, x |-> x, y |-> y, dead |-> FALSE]

COIN_FLOAT_TICKS == 40

\* new Coin(x, y, fromBlock): a coin from a block floats for 40 ticks and cannot be touched.
Coin(id, x, y, fromBlock) ==
  [ id |-> id, x |-> x, y |-> y, dead |-> FALSE,
    floating |-> fromBlock, floatTimer |-> IF fromBlock THEN COIN_FLOAT_TICKS ELSE 0 ]

\* Coin.update (the flight of a floating coin is not tracked).
CoinUpdate(c) ==
  IF c.floating
  THEN [c EXCEPT !.floatTimer = @ - 1, !.dead = (@ \/ c.floatTimer - 1 <= 0)]
  ELSE c

\* spawnBrickBreak: four particles at the centre of the cell.
spawnBrickBreak(col, row) ==
  [k \in 1..4 |-> [x |-> Px(col * TILE + TILE \div 2), y |-> Px(row * TILE + TILE \div 2), dir |-> k]]

\* ------------------------------------------------------------------ level
\* The window of the tile grid the model keeps: the cells (19,5) and (20,5).
Cells == {<<19, 5>>, <<20, 5>>}

LevelTiles(levelIndex) ==
  IF levelIndex % LEVEL_COUNT = 0
  THEN [c \in Cells |-> IF c = <<19, 5>> THEN T_QBLOCK ELSE T_BRICK]
  ELSE [c \in Cells |-> T_AIR]

LevelGoalCol(levelIndex) == IF levelIndex % LEVEL_COUNT = 0 THEN 148 ELSE 74

LevelP1Spawn(levelIndex) ==
  IF levelIndex % LEVEL_COUNT = 0 THEN [col |-> 2, row |-> 11] ELSE [col |-> 2, row |-> 5]

LevelP2Spawn(levelIndex) ==
  IF levelIndex % LEVEL_COUNT = 0 THEN [col |-> 4, row |-> 11] ELSE [col |-> 3, row |-> 5]

LevelRows == 15

\* The solid tiles of the maps outside the window: ground, pipes and walls (the bricks and
\* question blocks outside the window are left out).
LevelGround(levelIndex, col, row) ==
  IF levelIndex % LEVEL_COUNT = 0
  THEN \/ row \in {13, 14} /\ col <= 151
       \/ row = 12 /\ col <= 78
       \/ row \in {10, 11} /\ (col \in {10, 11, 30, 31} \/ col >= 42)
  ELSE \/ row \in {0, 7, 8, 9, 11, 12, 13}
       \/ col = 0
       \/ col = 76 /\ row \in {1, 3}
       \/ col = 75 /\ row \in {2, 4, 5}
       \/ row \in {4, 5} /\ col \in {7, 8, 14, 15}
       \/ row = 6 /\ col \in (3..6) \cup (9..11) \cup (14..25) \cup (29..33) \cup (36..38) \cup (45..74)
       \/ row = 10 /\ col \in (1..11) \cup (26..74)
       \/ row = 14 /\ col \in (1..51) \cup (65..69) \cup (71..73) \cup {75, 76}

\* Level.isSolid(col, row): Level.get gives air outside the map.
isSolid(s, col, row) ==
  IF row < 0 \/ row >= LevelRows \/ col < 0 \/ col >= (IF s.levelIndex % LEVEL_COUNT = 0 THEN 154 ELSE 77)
  THEN FALSE
  ELSE IF <<col, row>> \in Cells THEN s.tiles[<<col, row>>] # T_AIR
  ELSE LevelGround(s.levelIndex, col, row)

\* Level.hitBlock(col, row): the tiles after the hit and the item it gives (the question
\* block of the window holds a coin).
hitBlock(tiles, col, row) ==
  IF <<col, row>> \notin Cells THEN [tiles |-> tiles, item |-> "none"]
  ELSE CASE tiles[<<col, row>>] = T_QBLOCK ->
              [tiles |-> [tiles EXCEPT ![<<col, row>>] = T_QUSED], item |-> "C"]
         [] tiles[<<col, row>>] = T_BRICK -> [tiles |-> tiles, item |-> "BRICK"]
         [] OTHER -> [tiles |-> tiles, item |-> "none"]

\* Cells of the map that spawn a weapon crate: a row of six over the open ground of
\* level 0.
LevelCrateSpawns(levelIndex) ==
  IF levelIndex % LEVEL_COUNT = 0 THEN [k \in 1..6 |-> [col |-> 11 + k, row |-> 11]] ELSE << >>

\* ------------------------------------------------------------------ Game
NoInput ==
  [left |-> FALSE, right |-> FALSE, jump |-> FALSE, run |-> FALSE, fire |-> FALSE,
   mouseDown |-> FALSE, mouseClicked |-> FALSE]

\* load(levelIndex) on an instance record (no enemy, coin or power-up spawn lies in the
\* modelled window of the maps; every weapon crate of the map is spawned, on both sides).
load(s, levelIndex) ==
  LET sp1    == LevelP1Spawn(levelIndex)
      sp2    == LevelP2Spawn(levelIndex)
      crates == LevelCrateSpawns(levelIndex)
  IN [s EXCEPT
        !.levelIndex = levelIndex,
        !.tiles = LevelTiles(levelIndex),
        !.players = [ j \in {0, 1} |->
                        IF j = 0 THEN Player(0, Px(sp1.col * TILE), Px(sp1.row * TILE))
                                 ELSE Player(1, Px(sp2.col * TILE), Px(sp2.row * TILE)) ],
        !.enemies = <<>>,
        !.coins = <<>>,
        !.powerUps = <<>>,
        !.particles = <<>>,
        !.weaponCrates = [k \in 1..Len(crates) |->
                            WeaponCrate(s.nid + k - 1,
                                        Px(crates[k].col * TILE + 2), Px((crates[k].row - 1) * TILE))],
        !.nid = s.nid + Len(crates),
        !.projectileList = <<>>,
        !.explosions = <<>>,
        !.drawnObjects = <<>>,
        !.state = "playing",
        !.winTimer = 0,
        !.frame = 0]

\* new Game(canvas, network, localPlayerIndex)
Game(localPlayerIndex, hasNet) ==
  [ isHost |-> localPlayerIndex = 0, localIdx |-> localPlayerIndex, net |-> hasNet,
    state |-> "loading", levelIndex |-> 0, frame |-> 0, syncTimer |-> 0, winTimer |-> 0,
    remoteInput |-> NoInput, peerConnected |-> localPlayerIndex # 0,
    players |-> [j \in {0, 1} |-> Player(j, 0, 0)],
    enemies |-> <<>>, coins |-> <<>>, powerUps |-> <<>>, particles |-> <<>>,
    weaponCrates |-> <<>>, projectileList |-> <<>>, explosions |-> <<>>, drawnObjects |-> <<>>,
    chatLog |-> <<>>, tiles |-> LevelTiles(0),
    nextEnemyId |-> FIRST_ENEMY_ID, nextCollId |-> FIRST_COLL_ID, nid |-> FIRST_ITEM_ID ]

\* ------------------------------------------------------- _applyStateSync
RECURSIVE ApplyPlayerStates(_, _, _)
ApplyPlayerStates(players, list, k) ==
  IF k > Len(list) THEN players
  ELSE LET ps == list[k]
       IN ApplyPlayerStates(
            IF ps.id \in DOMAIN players
            THEN [players EXCEPT ![ps.id] = PlayerApplyState(@, ps)]
            ELSE players,
            list, k + 1)

RECURSIVE ApplyEnemyStates(_, _, _)
\* acc = [enemies, nextEnemyId]: find by id, create a mirror for a new id of a known
\* variant (the constructor draws an id, which es.id then replaces), apply the snapshot.
ApplyEnemyStates(acc, list, k) ==
  IF k > Len(list) THEN acc
  ELSE LET es    == list[k]
           found == FindIdx(acc.enemies, LAMBDA e : e.id = es.id)
       IN ApplyEnemyStates(
            IF found # 0
            THEN [acc EXCEPT !.enemies[found] = EnemyApplyState(@, es)]
            ELSE IF es.type \in EnemyTypes
            THEN [enemies |-> Append(acc.enemies,
                                     EnemyApplyState(Enemy(es.id, es.type, es.x, es.y), es)),
                  nextEnemyId |-> acc.nextEnemyId + 1]
            ELSE acc,
            list, k + 1)

KeepAllEnemies(enemies, hostIds) == enemies

\* this.enemies.filter(e => hostIds.has(e.id))
KeepHostEnemies(enemies, hostIds) == SelectSeq(enemies, LAMBDA e : e.id \in hostIds)

RECURSIVE ApplyCoinStates(_, _, _)
ApplyCoinStates(coins, list, k) ==
  IF k > Len(list) THEN coins
  ELSE LET cs    == list[k]
           found == FindIdx(coins, LAMBDA c : c.id = cs.id)
       IN ApplyCoinStates(
            IF found # 0 /\ cs.dead THEN [coins EXCEPT ![found].dead = TRUE] ELSE coins,
            list, k + 1)

RECURSIVE ApplyPowerUpStates(_, _, _)
\* acc = [powerUps, nextCollId]
ApplyPowerUpStates(acc, list, k) ==
  IF k > Len(list) THEN acc
  ELSE LET pus   == list[k]
           found == FindIdx(acc.powerUps, LAMBDA p : p.id = pus.id)
           sync(pu) == [pu EXCEPT !.x = pus.x, !.y = pus.y, !.dead = (@ \/ pus.dead)]
       IN ApplyPowerUpStates(
            IF found # 0
            THEN [acc EXCEPT !.powerUps[found] = sync(@)]
            ELSE IF ~pus.dead
            THEN [powerUps |-> Append(acc.powerUps,
                     sync([PowerUp(pus.id, pus.x, pus.y, pus.type) EXCEPT !.emerging = FALSE])),
                  nextCollId |-> acc.nextCollId + 1]
            ELSE acc,
            list, k + 1)

applyStateSync(s, msg) ==
  LET en == ApplyEnemyStates([enemies |-> s.enemies, nextEnemyId |-> s.nextEnemyId],
                             msg.enemies, 1)
      pu == ApplyPowerUpStates([powerUps |-> s.powerUps, nextCollId |-> s.nextCollId],
                               msg.powerUps, 1)
  IN [s EXCEPT
        !.players = ApplyPlayerStates(@, msg.players, 1),
        !.enemies = KeepHostEnemies(en.enemies, SeqIds(msg.enemies)),
        !.nextEnemyId = en.nextEnemyId,
        !.coins = ApplyCoinStates(@, msg.coins, 1),
        !.powerUps = SelectSeq(pu.powerUps, LAMBDA p : p.id \in SeqIds(msg.powerUps) \/ p.dead),
        !.nextCollId = pu.nextCollId]

\* ------------------------------------------------------------ _applyEvent
PlayerNames == <<"Mario", "Luigi">>

receiveChat(s, pid, text) ==
  LET entry  == [pid |-> pid, name |-> PlayerNames[pid + 1], text |-> text, timer |-> CHAT_TIMER]
      pushed == Append(s.chatLog, entry)
  IN [s EXCEPT !.chatLog = IF Len(pushed) > CHAT_KEEP THEN Tail(pushed) ELSE pushed]

BULLET_LIFE  == 55
ROCKET_LIFE  == 220
GRENADE_FUSE == 180
SWING_TIMER  == 14

\* new Bullet / Rocket / GrenadeProj / SwordSwing: life is _life, _fuse or timer.
Projectile(id, kind, x, y) ==
  [ id |-> id, kind |-> kind, x |-> x, y |-> y, dead |-> FALSE,
    vx |-> 0, vy |-> 0,
    w |-> IF kind = ITEM_ROCKET THEN 12 ELSE IF kind = ITEM_GRENADE THEN 10 ELSE 5,
    h |-> IF kind = ITEM_ROCKET THEN 8 ELSE IF kind = ITEM_GRENADE THEN 10 ELSE 5,
    life |-> CASE kind = ITEM_ROCKET  -> ROCKET_LIFE
               [] kind = ITEM_GRENADE -> GRENADE_FUSE
               [] kind = ITEM_SWORD   -> SWING_TIMER
               [] OTHER               -> BULLET_LIFE,
    exploded |-> FALSE, blastTriggered |-> FALSE ]

\* new GrenadeProj(x, y, vx, vy)
GrenadeProj(id, x, y, vx, vy) ==
  [Projectile(id, ITEM_GRENADE, x, y) EXCEPT !.vx = vx, !.vy = vy]

BLAST_RADIUS == 80
BLAST_TICKS  == 22

\* new Explosion(x, y): radius 0 until its first update.
Explosion(id, x, y) ==
  [ id |-> id, cx |-> x, cy |-> y, radius |-> 0, timer |-> BLAST_TICKS, dead |-> FALSE,
    hitIds |-> {} ]

overlapsPointHalfRadius(ex, px, py) ==
  LET dx == px - ex.cx
      dy == py - ex.cy
  IN IF 2 * Abs(dx) > ex.radius \/ 2 * Abs(dy) > ex.radius THEN FALSE
     ELSE 4 * (dx * dx + dy * dy) <= ex.radius * ex.radius

\* Explosion.overlapsPoint: sqrt(dx * dx + dy * dy) <= radius.
overlapsPoint(ex, px, py) ==
  LET dx == px - ex.cx
      dy == py - ex.cy
  IN IF Abs(dx) > ex.radius \/ Abs(dy) > ex.radius THEN FALSE
     ELSE dx * dx + dy * dy <= ex.radius * ex.radius

\* Explosion.update: radius = maxRadius * (1 - timer / 22).
ExplosionUpdate(ex) ==
  [ex EXCEPT !.timer = @ - 1,
             !.radius = (Px(BLAST_RADIUS) * (BLAST_TICKS - (ex.timer - 1))) \div BLAST_TICKS,
             !.dead = ex.timer - 1 <= 0]

ListProjTypes == {ITEM_MACHINE_GUN, ITEM_ROCKET, ITEM_GRENADE, ITEM_SWORD}

applyEvent(s, msg) ==
  CASE msg.event = "BRICK_BREAK" ->
         [s EXCEPT
            !.tiles = IF <<msg.col, msg.row>> \in Cells
                      THEN [@ EXCEPT ![<<msg.col, msg.row>>] = T_AIR] ELSE @,
            !.particles = @ \o spawnBrickBreak(msg.col, msg.row)]
    [] msg.event = "WIN" -> [s EXCEPT !.state = "win"]
    [] msg.event = "GAME_OVER" -> [s EXCEPT !.state = "gameover"]
    [] msg.event = "POWERUP" ->
         IF msg.pid \in DOMAIN s.players
         THEN [s EXCEPT !.players[msg.pid] = grow(@, msg.power)] ELSE s
    [] msg.event = "DRAW_OBJ" ->
         [s EXCEPT
            !.drawnObjects = Append(@, [id |-> s.nid, x |-> msg.x, y |-> msg.y,
                                        w |-> msg.w, h |-> msg.h]),
            !.nid = @ + 1]
    [] msg.event = "CRATE_PICKUP" ->
         [s EXCEPT
            !.weaponCrates = SelectSeq(@, LAMBDA c : ~c.dead /\ c.id # msg.cid),
            !.players = IF msg.pid \in DOMAIN s.players
                        THEN [@ EXCEPT ![msg.pid] = addItem(@, msg.item)] ELSE @]
    [] msg.event = "CHAT" -> receiveChat(s, msg.pid, msg.text)
    [] msg.event = "PROJ_SPAWN" ->
         IF s.isHost THEN s
         ELSE IF msg.projType \in ListProjTypes
         THEN [s EXCEPT
                 !.projectileList = Append(@, Projectile(s.nid, msg.projType, msg.x, msg.y)),
                 !.nid = @ + 1]
         ELSE IF msg.projType = ITEM_GRAPPLE /\ msg.pid \in DOMAIN s.players
         THEN [s EXCEPT !.players[msg.pid].grappleHook = TRUE, !.nid = @ + 1]
         ELSE s
    [] OTHER -> s      \* HURT, COIN, STOMP, BLOCK_HIT, POWERUP_SPAWN: no case changes state

\* ------------------------------------------------------------- Game.update
\* One call of a handler yields the instance, the messages it sent (in order) and the
\* levels of the 3-second reload timers it started.
Step(s) == [s |-> s, out |-> <<>>, tm |-> <<>>, log |-> <<>>]

\* The calls of a collision pass are written down as they are made.
Note(r, entry) == [r EXCEPT !.log = Append(@, entry)]

\* if (this.net) this.net.send(msg)
Send(r, msg) == IF r.s.net THEN [r EXCEPT !.out = Append(@, msg)] ELSE r

EventMsg(ev) == [type |-> "event", event |-> ev]

\* The stretch of ground a player walks in the model: the goal line and one step past it.
WALK_STEP == Px(4)
GoalX(levelIndex) == Px(LevelGoalCol(levelIndex) * TILE)
Ground(levelIndex) == {GoalX(levelIndex), GoalX(levelIndex) + WALK_STEP}

\* _handleInput + resolveEntity along x: left wins over right; off the modelled ground
\* the player is walled in.
Walk(x, input, levelIndex) ==
  LET t == IF input.left THEN x - WALK_STEP
           ELSE IF input.right THEN x + WALK_STEP
           ELSE x
  IN IF t \in Ground(levelIndex) THEN t ELSE x

respawn(p) ==
  [p EXCEPT !.dead = FALSE, !.deadTimer = 0, !.deathHandled = FALSE,
            !.x = p.spawnX, !.y = p.spawnY, !.vy = 0,
            !.power = POWER_SMALL, !.invuln = INVULN_FRAMES]

\* _updateDead without the test of the last life: every handled death respawns.
updateDeadAlwaysRespawns(p) ==
  LET q == [p EXCEPT !.deadTimer = @ + 1]
  IN IF q.deadTimer > DEAD_TICKS /\ ~q.deathHandled
     THEN respawn([q EXCEPT !.lives = @ - 1])
     ELSE q

\* Player._updateDead (the fall of the dead sprite is not tracked).
updateDead(p) ==
  LET q == [p EXCEPT !.deadTimer = @ + 1]
  IN IF q.deadTimer > DEAD_TICKS /\ ~q.deathHandled
     THEN IF q.lives > 1
          THEN respawn([q EXCEPT !.lives = @ - 1])
          ELSE [q EXCEPT !.deathHandled = TRUE, !.lives = 0,
                         !.events = Append(@, [type |-> "GAME_OVER"])]
     ELSE q

\* Player.update(input, level)
PlayerUpdate(p, input, levelIndex) ==
  IF p.dead THEN updateDead(p)
  ELSE [p EXCEPT !.invuln = IF @ > 0 THEN @ - 1 ELSE @,
                 !.stompGrace = IF @ > 0 THEN @ - 1 ELSE @,
                 !.x = Walk(@, input, levelIndex)]

\* A dead player whose partner lives respawns on the partner.
TrackPartner(p, partner) ==
  IF p.dead /\ ~partner.dead THEN [p EXCEPT !.spawnX = partner.x, !.spawnY = partner.y] ELSE p

\* Enemy.update of a mirror or host enemy: the death animation runs out after 60 ticks.
EnemyUpdate(e) ==
  IF e.dead
  THEN [e EXCEPT !.deathTimer = @ + 1, !.remove = (@ \/ e.deathTimer + 1 > 60)]
  ELSE e

EnemiesUpdate(enemies) ==
  SelectSeq([k \in 1..Len(enemies) |-> EnemyUpdate(enemies[k])], LAMBDA e : ~e.remove)

resetAndReload(s, levelIndex) ==
  [load(s, levelIndex) EXCEPT !.peerConnected = s.peerConnected,
                              !.players[0].lives = START_LIVES,
                              !.players[1].lives = START_LIVES]

onGameOver(r) ==
  IF r.s.state = "gameover" THEN r
  ELSE LET r1 == Send([r EXCEPT !.s.state = "gameover"], EventMsg("GAME_OVER"))
       IN [r1 EXCEPT !.tm = Append(@, 0)]

onLevelClear(r) ==
  LET r1 == Send([r EXCEPT !.s.state = "win"], EventMsg("WIN"))
  IN [r1 EXCEPT !.tm = Append(@, (r.s.levelIndex + 1) % LEVEL_COUNT)]

ActivePlayers(s) == IF s.peerConnected THEN <<0, 1>> ELSE <<s.localIdx>>

\* _onBlockHit(item, col, row, player) for the player of index j.
onBlockHit(r, item, col, row, j) ==
  LET cell == <<col, row>>
      r1 == CASE item = "BRICK" ->
                   IF r.s.players[j].power >= POWER_BIG
                   THEN Send([r EXCEPT
                                !.s.tiles = IF cell \in Cells THEN [@ EXCEPT ![cell] = T_AIR]
                                            ELSE @,
                                !.s.particles = @ \o spawnBrickBreak(col, row)],
                             [type |-> "event", event |-> "BRICK_BREAK",
                              col |-> col, row |-> row])
                   ELSE r
              [] item = "C" ->
                   Note([r EXCEPT
                           !.s.coins = Append(@, Coin(r.s.nextCollId,
                                                      Px(col * TILE + TILE \div 4),
                                                      Px(row * TILE), TRUE)),
                           !.s.nextCollId = @ + 1,
                           !.s.players[j].coins = @ + 1,
                           !.s.players[j].score = @ + 200],
                        [kind |-> "blockcoin", pid |-> j, id |-> r.s.nextCollId])
              [] item \in {"M", "F"} ->
                   LET type == IF item = "F" /\ r.s.players[j].power >= POWER_BIG
                               THEN "F" ELSE "M"
                   IN Send([r EXCEPT
                              !.s.powerUps = Append(@, PowerUp(r.s.nextCollId, Px(col * TILE),
                                                               Px((row - 1) * TILE), type)),
                              !.s.nextCollId = @ + 1],
                           [type |-> "event", event |-> "POWERUP_SPAWN",
                            col |-> col, row |-> row, putype |-> type])
              [] OTHER -> r
  IN Send(r1, [type |-> "event", event |-> "BLOCK_HIT", col |-> col, row |-> row,
               item |-> item])

RECURSIVE DrainEvents(_, _, _, _)
\* The events of player j, in order.
DrainEvents(r, evts, k, j) ==
  IF k > Len(evts) THEN r
  ELSE Then(CASE evts[k].type = "BLOCK_HIT" ->
                   onBlockHit(r, evts[k].item, evts[k].col, evts[k].row, j)
              [] evts[k].type = "GAME_OVER" -> onGameOver(r)
              [] OTHER -> r,
            LAMBDA r1 : DrainEvents(r1, evts, k + 1, j))

RECURSIVE ProcessPlayers(_, _, _)
ProcessPlayers(r, ids, k) ==
  IF k > Len(ids) THEN r
  ELSE Then(DrainEvents([r EXCEPT !.s.players[ids[k]].events = <<>>],
                        r.s.players[ids[k]].events, 1, ids[k]),
            LAMBDA r1 : ProcessPlayers(r1, ids, k + 1))

processPlayerEvents(r) == ProcessPlayers(r, ActivePlayers(r.s), 1)

StateMsg(s) ==
  [ type |-> "state", frame |-> s.frame,
    players |-> << PlayerSerialize(s.players[0]), PlayerSerialize(s.players[1]) >>,
    enemies |-> [k \in 1..Len(s.enemies) |-> EnemySerialize(s.enemies[k])],
    coins |-> [k \in 1..Len(s.coins) |-> [id |-> s.coins[k].id, dead |-> s.coins[k].dead]],
    powerUps |-> [k \in 1..Len(s.powerUps) |->
                    [id |-> s.powerUps[k].id, x |-> s.powerUps[k].x, y |-> s.powerUps[k].y,
                     dead |-> s.powerUps[k].dead, type |-> s.powerUps[k].type]],
    tiles |-> <<>> ]

sendStateSync(r) == Send(r, StateMsg(r.s))

\* Periodic full-state sync to the client.
SyncStepAfterRate(r) ==
  IF ~r.s.peerConnected THEN r
  ELSE IF r.s.syncTimer + 1 > SYNC_RATE
       THEN sendStateSync([r EXCEPT !.s.syncTimer = 0])
       ELSE [r EXCEPT !.s.syncTimer = @ + 1]

SyncStep(r) ==
  IF ~r.s.peerConnected THEN r
  ELSE IF r.s.syncTimer + 1 >= SYNC_RATE
       THEN sendStateSync([r EXCEPT !.s.syncTimer = 0])
       ELSE [r EXCEPT !.s.syncTimer = @ + 1]

\* onPeerJoined(): P2 respawns and the full state goes out at once.
onPeerJoined(r) ==
  LET r1 == [r EXCEPT !.s.peerConnected = TRUE, !.s.players[1] = respawn(@)]
  IN IF r.s.net THEN sendStateSync(r1) ELSE r1

\* localP.x / TILE > goalCol, or the same of a connected P2.
AtGoal(s) ==
  LET localP  == s.players[s.localIdx]
      remoteP == s.players[1 - s.localIdx]
      goal    == LevelGoalCol(s.levelIndex)
  IN /\ goal > 0
     /\ \/ localP.x > Px(goal * TILE)
        \/ s.peerConnected /\ remoteP.x > Px(goal * TILE)

WinStep(r) ==
  IF AtGoal(r.s)
  THEN LET r1 == [r EXCEPT !.s.winTimer = @ + 1]
       IN IF r1.s.winTimer > WIN_TICKS THEN onLevelClear(r1) ELSE r1
  ELSE r

overlaps(a, aw, ah, b, bw, bh) ==
  /\ a.x < b.x + Px(bw) /\ a.x + Px(aw) > b.x
  /\ a.y < b.y + Px(bh) /\ a.y + Px(ah) > b.y

stompCheckAnyDirection(a, aw, ah, b, bw, bh) ==
  /\ 2 * (a.y + Px(ah)) <= 2 * b.y + Px(bh)
  /\ a.x + Px(aw) > b.x + Px(2)
  /\ a.x < b.x + Px(bw) - Px(2)

\* stompCheck(player, enemy): falling, bottom in the top half of the enemy, and inside the
\* enemy's width less 2 px on each side.
stompCheck(a, aw, ah, b, bw, bh) ==
  IF a.vy <= 0 THEN FALSE
  ELSE /\ 2 * (a.y + Px(ah)) <= 2 * b.y + Px(bh)
       /\ a.x + Px(aw) > b.x + Px(2)
       /\ a.x < b.x + Px(bw) - Px(2)

\* ---------------------------------------------------------- _handleCollisions
RECURSIVE CoinLoop(_, _, _)
\* Player j and the coins: a coin touched is marked dead and counted; every hundredth
\* coin gives a life.
CoinLoop(r, j, c) ==
  IF c > Len(r.s.coins) THEN r
  ELSE LET coin   == r.s.coins[c]
           player == r.s.players[j]
           hit    == ~coin.dead /\ ~coin.floating
                     /\ overlaps(player, SMALL_W, SMALL_H, coin, 16, 16)
           r1     == [r EXCEPT !.s.coins[c].dead = TRUE,
                               !.s.players[j].coins = @ + 1,
                               !.s.players[j].score = @ + 200,
                               !.s.players[j].lives =
                                  IF (player.coins + 1) % 100 = 0 THEN @ + 1 ELSE @]
           r2     == IF r.s.isHost
                     THEN Send(r1, [type |-> "event", event |-> "COIN", pid |-> j,
                                    score |-> player.score + 200])
                     ELSE r1
       IN Then(IF hit THEN Note(r2, [kind |-> "coin", pid |-> j, id |-> coin.id]) ELSE r,
               LAMBDA n : CoinLoop(n, j, c + 1))

RECURSIVE PowerUpLoop(_, _, _)
\* Player j and the power-ups.
PowerUpLoop(r, j, c) ==
  IF c > Len(r.s.powerUps) THEN r
  ELSE LET pu    == r.s.powerUps[c]
           level == IF pu.type = "F" THEN POWER_FIRE ELSE POWER_BIG
           hit   == ~pu.dead /\ overlaps(r.s.players[j], SMALL_W, SMALL_H, pu, 28, 28)
           r1    == [r EXCEPT !.s.powerUps[c].dead = TRUE,
                              !.s.players[j] = [grow(@, level) EXCEPT !.score = @ + 1000]]
           r2    == IF r.s.isHost
                    THEN Send(r1, [type |-> "event", event |-> "POWERUP", pid |-> j,
                                   power |-> level])
                    ELSE r1
       IN Then(IF hit THEN r2 ELSE r, LAMBDA n : PowerUpLoop(n, j, c + 1))

\* Player j meets the living enemy of index k it overlaps: a stomp, or a contact that
\* the stomp grace or a shell at rest makes harmless, or one that hurts.
EnemyContactShellAlwaysHurts(r, j, k) ==
  LET enemy  == r.s.enemies[k]
      player == r.s.players[j]
      st     == EnemyStomp(enemy)
      r1     == IF stompCheck(player, SMALL_W, SMALL_H, enemy, enemy.w, enemy.h)
                THEN LET q == [r EXCEPT !.s.enemies[k] = st.e,
                                        !.s.players[j].vy = 0 - Px(8),
                                        !.s.players[j].stompGrace = 12,
                                        !.s.players[j].score = @ + st.pts]
                     IN IF r.s.isHost
                        THEN Send(q, [type |-> "event", event |-> "STOMP",
                                      eid |-> enemy.id, pid |-> j])
                        ELSE q
                ELSE IF player.stompGrace > 0 THEN r
                ELSE IF enemy.type = "Koopa" /\ enemy.shelled
                THEN [r EXCEPT !.s.players[j] = hurt(@)]
                ELSE IF r.s.isHost
                THEN Send([r EXCEPT !.s.players[j] = hurt(@)],
                          [type |-> "event", event |-> "HURT", pid |-> j])
                ELSE [r EXCEPT !.s.players[j] = hurt(@)]
  IN Note(r1, [kind |-> "enemy", pid |-> j, e |-> enemy, f |-> r1.s.enemies[k],
               p |-> player, q |-> r1.s.players[j],
               stomp |-> r1.s.players[j].stompGrace > player.stompGrace,
               pts |-> r1.s.players[j].score - player.score])

EnemyContact(r, j, k) ==
  LET enemy  == r.s.enemies[k]
      player == r.s.players[j]
      st     == EnemyStomp(enemy)
      r1     == IF stompCheck(player, SMALL_W, SMALL_H, enemy, enemy.w, enemy.h)
                THEN LET q == [r EXCEPT !.s.enemies[k] = st.e,
                                        !.s.players[j].vy = 0 - Px(8),
                                        !.s.players[j].stompGrace = 12,
                                        !.s.players[j].score = @ + st.pts]
                     IN IF r.s.isHost
                        THEN Send(q, [type |-> "event", event |-> "STOMP",
                                      eid |-> enemy.id, pid |-> j])
                        ELSE q
                ELSE IF player.stompGrace > 0 THEN r
                ELSE IF enemy.type = "Koopa" /\ enemy.shellMoving
                THEN [r EXCEPT !.s.players[j] = hurt(@)]
                ELSE IF enemy.type = "Koopa" /\ enemy.shelled THEN r
                ELSE IF r.s.isHost
                THEN Send([r EXCEPT !.s.players[j] = hurt(@)],
                          [type |-> "event", event |-> "HURT", pid |-> j])
                ELSE [r EXCEPT !.s.players[j] = hurt(@)]
  IN Note(r1, [kind |-> "enemy", pid |-> j, e |-> enemy, f |-> r1.s.enemies[k],
               p |-> player, q |-> r1.s.players[j],
               stomp |-> r1.s.players[j].stompGrace > player.stompGrace,
               pts |-> r1.s.players[j].score - player.score])

RECURSIVE EnemyLoop(_, _, _)
\* Player j and the enemies (fireballs are not tracked).
EnemyLoop(r, j, k) ==
  IF k > Len(r.s.enemies) THEN r
  ELSE LET enemy == r.s.enemies[k]
           met   == ~enemy.dead /\ ~enemy.remove
                    /\ overlaps(r.s.players[j], SMALL_W, SMALL_H, enemy, enemy.w, enemy.h)
       IN Then(IF met THEN EnemyContact(r, j, k) ELSE r,
               LAMBDA n : EnemyLoop(n, j, k + 1))

RECURSIVE PlayerPass(_, _, _)
\* for (const player of activePlayers): dead players are passed over (no moving platform,
\* lava or ice lies in the modelled part of the maps).
PlayerPass(r, ids, k) ==
  IF k > Len(ids) THEN r
  ELSE IF r.s.players[ids[k]].dead THEN PlayerPass(r, ids, k + 1)
  ELSE Then(Then(Then(CoinLoop(r, ids[k], 1),
                 LAMBDA a : PowerUpLoop(a, ids[k], 1)),
                 LAMBDA b : EnemyLoop(b, ids[k], 1)),
                 LAMBDA c : PlayerPass(c, ids, k + 1))

RECURSIVE ShellLoop(_, _, _)
\* A moving shell kills the living enemies it overlaps.
ShellLoop(r, k, m) ==
  IF k > Len(r.s.enemies) THEN r
  ELSE IF m > Len(r.s.enemies) \/ r.s.enemies[k].type # "Koopa" \/ ~r.s.enemies[k].shellMoving
  THEN ShellLoop(r, k + 1, 1)
  ELSE LET koopa == r.s.enemies[k]
           enemy == r.s.enemies[m]
           hit   == m # k /\ ~enemy.dead
                    /\ overlaps(koopa, koopa.w, koopa.h, enemy, enemy.w, enemy.h)
       IN Then(IF hit
               THEN Note([r EXCEPT !.s.enemies[m] = EnemyKill(@).e],
                         [kind |-> "shell", eid |-> enemy.id])
               ELSE r,
               LAMBDA n : ShellLoop(n, k, m + 1))

\* The centre of an enemy.
EnemyCx(e) == e.x + Px(e.w) \div 2
EnemyCy(e) == e.y + Px(e.h) \div 2

\* _triggerExplosion(x, y)
triggerExplosion(r, x, y) ==
  Note([r EXCEPT !.s.explosions = Append(@, Explosion(r.s.nid, x, y)), !.s.nid = @ + 1],
       [kind |-> "explosion", id |-> r.s.nid])

RECURSIVE ProjLoop(_, _, _)
\* Projectiles and enemies: a bullet dies with the enemy it hits, a rocket or a grenade
\* goes off at the centre of each enemy it overlaps (the arc of a sword swing is not
\* tracked).
ProjLoop(r, k, m) ==
  IF k > Len(r.s.projectileList) THEN r
  ELSE IF m > Len(r.s.enemies) \/ (m = 1 /\ r.s.projectileList[k].dead)
  THEN ProjLoop(r, k + 1, 1)
  ELSE LET proj  == r.s.projectileList[k]
           enemy == r.s.enemies[m]
           hit   == ~enemy.dead /\ ~enemy.remove /\ proj.kind # ITEM_SWORD
                    /\ overlaps(proj, proj.w, proj.h, enemy, enemy.w, enemy.h)
           r1    == IF proj.kind \in {ITEM_ROCKET, ITEM_GRENADE}
                    THEN triggerExplosion(
                           Note([r EXCEPT !.s.projectileList[k].exploded = TRUE,
                                          !.s.projectileList[k].dead = TRUE],
                                [kind |-> "struck", id |-> proj.id, eid |-> enemy.id]),
                           EnemyCx(enemy), EnemyCy(enemy))
                    ELSE [r EXCEPT !.s.projectileList[k].dead = TRUE,
                                   !.s.enemies[m] = EnemyKill(@).e]
       IN Then(IF hit THEN r1 ELSE r, LAMBDA n : ProjLoop(n, k, m + 1))

RECURSIVE BlastLoopFriendlyFire(_, _, _)
\* The loop with player.hurt() for a player whose centre is within the radius.
BlastLoopFriendlyFire(r, k, m) ==
  IF k > Len(r.s.explosions) THEN r
  ELSE IF m > Len(r.s.enemies)
  THEN BlastLoopFriendlyFire(
         [r EXCEPT !.s.players =
            [j \in {0, 1} |->
               IF overlapsPoint(r.s.explosions[k], r.s.players[j].x + Px(SMALL_W) \div 2,
                                r.s.players[j].y + Px(SMALL_H) \div 2)
               THEN hurt(r.s.players[j]) ELSE r.s.players[j]]],
         k + 1, 1)
  ELSE LET expl  == r.s.explosions[k]
           enemy == r.s.enemies[m]
           hit   == ~enemy.dead /\ ~enemy.remove /\ enemy.id \notin expl.hitIds
                    /\ overlapsPoint(expl, EnemyCx(enemy), EnemyCy(enemy))
       IN Then(IF hit
               THEN Note([r EXCEPT !.s.explosions[k].hitIds = @ \cup {enemy.id},
                                   !.s.enemies[m] = EnemyKill(@).e],
                         [kind |-> "blast", xid |-> expl.id, eid |-> enemy.id])
               ELSE r,
               LAMBDA n : BlastLoopFriendlyFire(n, k, m + 1))

RECURSIVE BlastLoop(_, _, _)
\* Explosions and enemies: a living enemy not on the hit list whose centre is within the
\* radius goes on the list and is killed.
BlastLoop(r, k, m) ==
  IF k > Len(r.s.explosions) THEN r
  ELSE IF m > Len(r.s.enemies) THEN BlastLoop(r, k + 1, 1)
  ELSE LET expl  == r.s.explosions[k]
           enemy == r.s.enemies[m]
           hit   == ~enemy.dead /\ ~enemy.remove /\ enemy.id \notin expl.hitIds
                    /\ overlapsPoint(expl, EnemyCx(enemy), EnemyCy(enemy))
       IN Then(IF hit
               THEN Note([r EXCEPT !.s.explosions[k].hitIds = @ \cup {enemy.id},
                                   !.s.enemies[m] = EnemyKill(@).e],
                         [kind |-> "blast", xid |-> expl.id, eid |-> enemy.id])
               ELSE r,
               LAMBDA n : BlastLoop(n, k, m + 1))

\* _handleCollisions()
handleCollisions(r) ==
  Then(Then(Then(PlayerPass(r, ActivePlayers(r.s), 1),
       LAMBDA a : ShellLoop(a, 1, 1)),
       LAMBDA b : ProjLoop(b, 1, 1)),
       LAMBDA c : BlastLoop(c, 1, 1))

\* ------------------------------------------------------ _updateProjectileList
GRAVITY  == 35
MAX_FALL == Px(14)

\* GrenadeProj.update(level): gravity and the bounce factors -0.55, 0.8 and -0.4 are
\* kept to the 1/64 pixel.
GrenadeUpdate(g, s) ==
  IF g.dead THEN g
  ELSE IF g.life - 1 <= 0
  THEN [g EXCEPT !.life = @ - 1, !.dead = TRUE, !.exploded = TRUE]
  ELSE LET vy1    == IF g.vy + GRAVITY < MAX_FALL THEN g.vy + GRAVITY ELSE MAX_FALL
           x1     == g.x + g.vx
           bumped == isSolid(s, (x1 + Px(g.w) \div 2) \div Px(TILE),
                                (g.y + Px(g.h) \div 2) \div Px(TILE))
           x2     == IF bumped THEN g.x ELSE x1
           vx2    == IF bumped THEN (g.vx * (0 - 55)) \div 100 ELSE g.vx
           y1     == g.y + vy1
           rowBot == (y1 + Px(g.h)) \div Px(TILE)
           landed == isSolid(s, (x2 + Px(g.w) \div 2) \div Px(TILE), rowBot)
           y2     == IF landed THEN Px(rowBot * TILE - g.h) ELSE y1
       IN [g EXCEPT !.life = @ - 1, !.x = x2, !.y = y2,
                    !.vx = IF landed THEN (vx2 * 80) \div 100 ELSE vx2,
                    !.vy = IF landed THEN (vy1 * (0 - 40)) \div 100 ELSE vy1,
                    !.dead = y2 > Px(LevelRows * TILE + 64)]

\* p.update(level) of a projectile: the grenade in full, of the others the timer (their
\* flight is not tracked).
ProjectileUpdate(p, s) ==
  IF p.kind = ITEM_GRENADE THEN GrenadeUpdate(p, s)
  ELSE IF p.dead THEN p
  ELSE IF p.life - 1 <= 0
  THEN [p EXCEPT !.life = @ - 1, !.dead = TRUE, !.exploded = (p.kind = ITEM_ROCKET)]
  ELSE [p EXCEPT !.life = @ - 1]

RECURSIVE ProjUpdateLoop(_, _)
\* Each projectile is updated; a rocket or grenade that went off, and whose blast was not
\* yet triggered here, leaves an explosion at its centre.
ProjUpdateLoop(r, k) ==
  IF k > Len(r.s.projectileList) THEN r
  ELSE LET p  == ProjectileUpdate(r.s.projectileList[k], r.s)
           r1 == [r EXCEPT !.s.projectileList[k] = p]
           r2 == triggerExplosion([r1 EXCEPT !.s.projectileList[k].blastTriggered = TRUE],
                                  p.x + Px(p.w) \div 2, p.y + Px(p.h) \div 2)
       IN Then(IF p.kind \in {ITEM_ROCKET, ITEM_GRENADE} /\ p.exploded /\ ~p.blastTriggered
               THEN r2 ELSE r1,
               LAMBDA n : ProjUpdateLoop(n, k + 1))

\* _updateProjectileList()
updateProjectileList(r) ==
  LET r1 == ProjUpdateLoop(r, 1)
      gone == SelectSeq(r1.s.projectileList, LAMBDA p : p.dead)
      r2 == [r1 EXCEPT !.log = @ \o [k \in 1..Len(gone) |->
                                       [kind |-> "gone", id |-> gone[k].id,
                                        proj |-> gone[k].kind,
                                        exploded |-> gone[k].exploded,
                                        life |-> gone[k].life]]]
  IN [r2 EXCEPT
        !.s.projectileList = SelectSeq(@, LAMBDA p : ~p.dead),
        !.s.explosions = SelectSeq([k \in 1..Len(@) |-> ExplosionUpdate(@[k])],
                                   LAMBDA e : ~e.dead)]

RECURSIVE CratePass(_, _, _, _, _)
\* for (player of activePlayers) for (crate of weaponCrates): the first living player
\* that overlaps a crate marks it dead; the host adds the drop and tells the client.
CratePass(r, ids, k, c, drop) ==
  IF k > Len(ids) THEN r
  ELSE IF c > Len(r.s.weaponCrates) \/ r.s.players[ids[k]].dead
  THEN CratePass(r, ids, k + 1, 1, drop)
  ELSE LET crate == r.s.weaponCrates[c]
           hit   == ~crate.dead /\ overlaps(r.s.players[ids[k]], 24, 28, crate, 28, 28)
           r1    == [r EXCEPT !.s.weaponCrates[c].dead = TRUE]
           r2    == [r1 EXCEPT !.s.players[ids[k]] = addItem(@, drop)]
           r3    == IF r.s.net /\ r.s.peerConnected
                    THEN Send(r2, [type |-> "event", event |-> "CRATE_PICKUP",
                                   cid |-> crate.id, pid |-> ids[k], item |-> drop])
                    ELSE r2
       IN Then(IF ~hit THEN r ELSE IF r.s.isHost THEN r3 ELSE r1,
               LAMBDA n : CratePass(n, ids, k, c + 1, drop))

\* _checkCratePickups with the drop the host drew.
checkCratePickups(r, drop) ==
  LET done == CratePass(r, ActivePlayers(r.s), 1, 1, drop)
  IN [done EXCEPT !.s.weaponCrates = SelectSeq(@, LAMBDA c : ~c.dead)]

\* Chat timers: entry.timer--, entries at 0 leave the log.
ChatStep(s) ==
  [s EXCEPT !.chatLog = SelectSeq([k \in 1..Len(@) |-> [@[k] EXCEPT !.timer = @ - 1]],
                                  LAMBDA e : e.timer > 0)]

\* frame++, the INPUT message, the local player.
LocalStep(s, keys) ==
  LET li == s.localIdx
      s1 == [s EXCEPT !.frame = @ + 1,
                      !.players[li] = PlayerUpdate(TrackPartner(@, s.players[1 - li]),
                                                   keys, s.levelIndex)]
  IN IF s.net /\ s.peerConnected
     THEN Send(Step(s1), [type |-> "input", frame |-> s.frame + 1, keys |-> keys])
     ELSE Step(s1)

\* Host: the remote player, by the staged remote input.
RemoteStep(r) ==
  IF r.s.isHost /\ r.s.peerConnected
  THEN [r EXCEPT !.s.players[1 - r.s.localIdx] =
          PlayerUpdate(TrackPartner(@, r.s.players[r.s.localIdx]),
                       r.s.remoteInput, r.s.levelIndex)]
  ELSE r

\* Enemies on both sides, power-ups on the host.
EntityStep(r) ==
  [r EXCEPT !.s.enemies = EnemiesUpdate(@),
            !.s.powerUps = IF r.s.isHost THEN SelectSeq(@, LAMBDA pu : ~pu.dead) ELSE @]

\* _fireItem(player, slot, angle, _broadcastOk) with the mouse at angle 0: the projectile
\* leaves the centre of the player, a limited slot loses one round and leaves the
\* inventory when it is empty (null ammo, what a snapshot makes of Infinity, counts as
\* empty after the first round); only the host tells the peer, and only of its own shots.
fireItem(r, j, broadcastOk) ==
  LET p     == r.s.players[j]
      slot  == p.inventory[p.activeSlot + 1]
      cx    == p.x + Px(SMALL_W) \div 2
      cy    == p.y + Px(SMALL_H) \div 2
      tell  == broadcastOk /\ r.s.isHost /\ r.s.peerConnected /\ r.s.net /\ j = r.s.localIdx
      left  == IF slot.ammo = AMMO_INF THEN slot.ammo ELSE slot.ammo - 1
      spent == [k \in 1..(Len(p.inventory) - 1) |->
                  IF k <= p.activeSlot THEN p.inventory[k] ELSE p.inventory[k + 1]]
      shot(proj) ==
        [r EXCEPT !.s.projectileList = Append(@, proj),
                  !.s.nid = @ + 1,
                  !.s.players[j].inventory =
                     IF slot.type \in {ITEM_MACHINE_GUN, ITEM_ROCKET, ITEM_GRENADE}
                     THEN IF left # AMMO_INF /\ left <= 0 THEN spent
                          ELSE [@ EXCEPT ![p.activeSlot + 1].ammo = left]
                     ELSE @]
      told(q, msg) == IF tell THEN Send(q, msg) ELSE q
      spawn == [type |-> "event", event |-> "PROJ_SPAWN", projType |-> slot.type,
                x |-> cx, y |-> cy]
  IN CASE slot.type \in {ITEM_MACHINE_GUN, ITEM_ROCKET} ->
            told(shot(Projectile(r.s.nid, slot.type, cx, cy)), spawn)
       [] slot.type = ITEM_GRENADE ->
            told(shot(GrenadeProj(r.s.nid, cx, cy, Px(8), 0)), spawn)
       [] slot.type = ITEM_GRAPPLE ->
            IF p.grappleHook THEN [r EXCEPT !.s.players[j].grappleHook = FALSE]
            ELSE told([r EXCEPT !.s.players[j].grappleHook = TRUE, !.s.nid = @ + 1],
                      [type |-> "event", event |-> "PROJ_SPAWN", projType |-> slot.type,
                       x |-> cx, y |-> cy, pid |-> j])
       [] slot.type = ITEM_SWORD ->
            IF p.swordCooldown > 0 THEN r
            ELSE told([shot(Projectile(r.s.nid, slot.type, cx, cy))
                         EXCEPT !.s.players[j].swordCooldown = 28], spawn)
       [] OTHER -> r

\* _processLocalItems / _processRemoteItems of player j with the input of its owner:
\* the cooldowns tick, then the active slot fires on a click (the machine gun while the
\* button is down, every fourth tick; the pencil does not fire).
processItems(r, j, input, broadcastOk) ==
  LET r1 == [r EXCEPT !.s.players[j].gunTimer = IF @ > 0 THEN @ - 1 ELSE @,
                      !.s.players[j].swordCooldown = IF @ > 0 THEN @ - 1 ELSE @]
      p  == r1.s.players[j]
  IN IF p.activeSlot >= Len(p.inventory) THEN r1
     ELSE IF p.inventory[p.activeSlot + 1].type = ITEM_MACHINE_GUN
     THEN IF input.mouseDown /\ p.gunTimer <= 0
          THEN [fireItem(r1, j, broadcastOk) EXCEPT !.s.players[j].gunTimer = 4]
          ELSE r1
     ELSE IF p.inventory[p.activeSlot + 1].type # ITEM_PENCIL /\ input.mouseClicked
     THEN fireItem(r1, j, broadcastOk)
     ELSE r1

\* Where the jump and fall of a living player leave it at the end of Player.update, when
\* the tick is followed off the walked ground: its place, its fall speed and the blocks
\* its head hit (none: the player is where the walk left it).
NoMove == [moved |-> FALSE]

RECURSIVE HitBlocks(_, _, _, _)
\* for ({col, row} of blocksHit): level.hitBlock, and a BLOCK_HIT event if it gave an item.
HitBlocks(r, j, cells, k) ==
  IF k > Len(cells) THEN r
  ELSE LET hb == hitBlock(r.s.tiles, cells[k][1], cells[k][2])
       IN HitBlocks(IF hb.item = "none" THEN r
                    ELSE [r EXCEPT !.s.tiles = hb.tiles,
                                   !.s.players[j].events =
                                      Append(@, [type |-> "BLOCK_HIT", item |-> hb.item,
                                                 col |-> cells[k][1], row |-> cells[k][2]])],
                    j, cells, k + 1)

Moved(r, j, m) ==
  IF ~m.moved \/ r.s.players[j].dead THEN r
  ELSE HitBlocks([r EXCEPT !.s.players[j].x = m.x, !.s.players[j].y = m.y,
                           !.s.players[j].vy = m.vy],
                 j, m.hits, 1)

\* Game.update() with the local input snapshot keys, the crate drop drawn this tick and
\* the places mv the players' jumps and falls take them to.
updateMoved(s, keys, drop, mv) ==
  IF s.state # "playing" THEN Step(s)
  ELSE
    Then(Then(Then(Then(Then(Then(Then(Then(Then(Then(Then(Then(Then(Then(
      LocalStep(s, keys),
      LAMBDA r : Moved(r, s.localIdx, mv[s.localIdx])),
      LAMBDA r : processItems(r, s.localIdx, keys, TRUE)),
      LAMBDA r : RemoteStep(r)),
      LAMBDA r : IF s.isHost /\ s.peerConnected
                 THEN Moved(r, 1 - s.localIdx, mv[1 - s.localIdx]) ELSE r),
      LAMBDA r : IF s.isHost /\ s.peerConnected
                 THEN processItems(r, 1 - s.localIdx, s.remoteInput, FALSE) ELSE r),
      LAMBDA r : EntityStep(r)),
      LAMBDA r : handleCollisions(r)),
      LAMBDA r : processPlayerEvents(r)),
      LAMBDA r : IF s.isHost THEN SyncStep(r) ELSE r),
      LAMBDA r : IF s.isHost THEN WinStep(r) ELSE r),
      LAMBDA r : [r EXCEPT !.s.coins = SelectSeq([k \in 1..Len(@) |-> CoinUpdate(@[k])],
                                                 LAMBDA c : ~c.dead)]),
      LAMBDA r : updateProjectileList(r)),
      LAMBDA r : checkCratePickups(r, drop)),
      LAMBDA r : [r EXCEPT !.s = ChatStep(@)])

\* Game.update() of a tick walked on the ground.
update(s, keys, drop) == updateMoved(s, keys, drop, [j \in {0, 1} |-> NoMove])

\* ---------------------------------------------------------- _handleNetMsg
handleNetMsgAnyRole(s, msg) ==
  CASE msg.type = "input"   -> [s EXCEPT !.remoteInput = msg.keys]
    [] msg.type = "state"   -> applyStateSync(s, msg)
    [] msg.type = "event"   -> applyEvent(s, msg)
    [] msg.type = "restart" -> load(s, msg.level)
    [] OTHER -> s

handleNetMsgEagerInput(s, msg) ==
  CASE msg.type = "input"   ->
         [s EXCEPT !.remoteInput = msg.keys,
                   !.players[1 - s.localIdx] = PlayerUpdate(@, msg.keys, s.levelIndex)]
    [] msg.type = "state"   -> IF ~s.isHost THEN applyStateSync(s, msg) ELSE s
    [] msg.type = "event"   -> applyEvent(s, msg)
    [] msg.type = "restart" -> load(s, msg.level)
    [] OTHER -> s

handleNetMsg(s, msg) ==
  CASE msg.type = "input"   -> [s EXCEPT !.remoteInput = msg.keys]
    [] msg.type = "state"   -> IF ~s.isHost THEN applyStateSync(s, msg) ELSE s
    [] msg.type = "event"   -> applyEvent(s, msg)
    [] msg.type = "restart" -> load(s, msg.level)
    [] OTHER -> s

\* ------------------------------------------------------------------ state
VARIABLES
  G,        \* G[i]: the Game instance of participant i
  chan,     \* chan[i]: messages in flight to participant i (unordered, lossy)
  timers,   \* timers[i][l]: pending setTimeout reloads of level l at participant i
  ticks,    \* animation frames still to run in the explored run
  last,     \* the message the client's handler applied last (history)
  prevIds,  \* enemy ids the client mirrored before the last STATE message (history)
  inMax,    \* the INPUT with the highest frame the host has received (history)
  consec,   \* consecutive host ticks, up to now, with a player past the goal (history)
  page,     \* per participant: rafId set, document.hidden, state of its end of the connection,
            \* frame callbacks requested and neither run nor cancelled
  arg,      \* the arguments of the function call under study
  ret       \* what the call returned or left behind, NoCall before it

vars == <<G, chan, timers, ticks, last, prevIds, inMax, consec, page, arg, ret>>

\* The variables of a single function call.
fnVars == <<arg, ret>>

NoCall == [called |-> FALSE]

netVars == <<chan, timers, ticks, inMax, consec, page, fnVars>>

\* The page of a participant whose game runs: a frame requested, the tab visible, conn.open.
PageOpen == [rafId |-> TRUE, hidden |-> FALSE, conn |-> "open", pending |-> 1]

\* Both participants after new Game(...) and load(0).
Started == [i \in Inst |-> load(Game(i, TRUE), 0)]

Quiet ==
  /\ chan = [i \in Inst |-> {}]
  /\ timers = [i \in Inst |-> [l \in 0..(LEVEL_COUNT - 1) |-> 0]]
  /\ ticks = 0
  /\ inMax = [frame |-> 0, keys |-> NoInput]
  /\ consec = 0
  /\ page = [i \in Inst |-> PageOpen]

\* --------------------------------------------------- inbound STATE messages
EnemyTypeOfId(id) ==
  CASE id = 1 -> "Goomba" [] id = 2 -> "Koopa" [] id = 3 -> "Lizard" [] OTHER -> "Flyer"

\* What serialize() can yield for host enemy id: the first enemy at two positions, alive
\* or dead; every later one at one position, alive or dead and flagged for removal.
EnemySnapshots(id) ==
  { [EnemySerialize(Enemy(id, EnemyTypeOfId(id), xf[1], Px(320)))
       EXCEPT !.dead = xf[2], !.remove = xf[3]] :
      xf \in IF id = 1
             THEN {<<Px(100), FALSE, FALSE>>, <<Px(104), FALSE, FALSE>>,
                   <<Px(100), TRUE, FALSE>>, <<Px(104), TRUE, FALSE>>}
             ELSE {<<Px(100 + 8 * id), FALSE, FALSE>>, <<Px(100 + 8 * id), TRUE, TRUE>>} }

RECURSIVE EnemyLists(_)
\* Lists of snapshots of distinct ids among 1..n, in id order (the host's creation order).
EnemyLists(n) ==
  IF n = 0 THEN { <<>> }
  ELSE EnemyLists(n - 1) \cup { Append(l, e) : l \in EnemyLists(n - 1), e \in EnemySnapshots(n) }

PowerUpLists ==
  { <<>>, << [id |-> FIRST_COLL_ID, x |-> Px(640), y |-> Px(128), dead |-> FALSE, type |-> "M"] >> }

StateMsgs ==
  { [ type |-> "state", frame |-> 3,
      players |-> << PlayerSerialize(Started[HOST].players[0]),
                     PlayerSerialize(Started[HOST].players[1]) >>,
      enemies |-> el, coins |-> cl, powerUps |-> pl, tiles |-> <<>> ] :
      el \in EnemyLists(MaxEnemies), pl \in PowerUpLists,
      \* the host has no coin that rests, or one (a coin spawn of its map)
      cl \in { <<>>, << [id |-> FIRST_COLL_ID + 1, dead |-> FALSE] >> } }

InitSync ==
  /\ G = Started
  /\ last = [type |-> "none"]
  /\ prevIds = {}
  /\ Quiet
  /\ arg = NoCall
  /\ ret = NoCall

\* The transport hands the client a STATE message: onMessage -> _handleNetMsg.
RecvState(m) ==
  LET after == handleNetMsg(G[CLIENT], m)
  IN /\ after.nextEnemyId - FIRST_ENEMY_ID <= MaxCreated
     /\ after.nextCollId - FIRST_COLL_ID <= MaxCreated
     /\ G' = [G EXCEPT ![CLIENT] = after]
     /\ last' = m
     /\ prevIds' = SeqIds(G[CLIENT].enemies)
     /\ UNCHANGED netVars

NextSync == \E m \in StateMsgs : RecvState(m)

SpecSync == InitSync /\ [][NextSync]_vars

\* C1: after the client applies a STATE message that carries an enemies list, the
\* client's enemy ids are exactly the ids of the message (known variants), one mirror
\* per id, and every mirror's x, y, dead and remove are the message's values.
C1_MirrorsEqualSnapshot ==
  last.type = "state" =>
    LET en == G[CLIENT].enemies
        ms == last.enemies
    IN /\ SeqIds(en) = {ms[k].id : k \in {j \in 1..Len(ms) : ms[j].type \in EnemyTypes}}
       /\ Cardinality(SeqIds(en)) = Len(en)
       /\ \A k \in 1..Len(ms) : \A j \in 1..Len(en) :
            en[j].id = ms[k].id =>
              /\ en[j].x = ms[k].x /\ en[j].y = ms[k].y
              /\ en[j].dead = ms[k].dead /\ en[j].remove = ms[k].remove

\* A snapshot that dropped a mirrored id, brought a new one and moved a kept one.
C1_Witness ==
  /\ last.type = "state"
  /\ prevIds \ SeqIds(last.enemies) # {}
  /\ SeqIds(last.enemies) \ prevIds # {}
  /\ SeqIds(G[CLIENT].enemies) = SeqIds(last.enemies)
  /\ \E j \in 1..Len(G[CLIENT].enemies) : G[CLIENT].enemies[j].dead

\* --------------------------------------------------- inbound EVENT messages
EventMsgs ==
  { [type |-> "event", event |-> "CRATE_PICKUP", cid |-> c, pid |-> CLIENT, item |-> ITEM_ROCKET] :
      c \in {FIRST_ITEM_ID, FIRST_ITEM_ID + 1} }
  \cup
  { [type |-> "event", event |-> "DRAW_OBJ", x |-> 300, y |-> 200, w |-> 40, h |-> 4],
    [type |-> "event", event |-> "PROJ_SPAWN", projType |-> ITEM_ROCKET, x |-> 76, y |-> 366],
    [type |-> "event", event |-> "BRICK_BREAK", col |-> 20, row |-> 5],
    [type |-> "event", event |-> "CHAT", pid |-> HOST, text |-> "hi"],
    [type |-> "event", event |-> "POWERUP", pid |-> CLIENT, power |-> POWER_BIG],
    [type |-> "event", event |-> "HURT", pid |-> CLIENT],
    [type |-> "event", event |-> "WIN"],
    [type |-> "event", event |-> "GAME_OVER"] }

\* The transport hands the client an EVENT message: onMessage -> _handleNetMsg.
RecvEvent(m) ==
  LET after == handleNetMsg(G[CLIENT], m)
  IN /\ Len(after.drawnObjects) <= MaxList
     /\ Len(after.projectileList) <= MaxList
     /\ Len(after.chatLog) <= MaxList
     /\ Len(after.particles) <= 4 * MaxList
     /\ G' = [G EXCEPT ![CLIENT] = after]
     /\ last' = m
     /\ UNCHANGED <<prevIds, netVars>>

NextEvent == \E m \in EventMsgs : RecvEvent(m)

SpecEvent == InitSync /\ [][NextEvent]_vars

\* A step that applies the message the previous step applied.
SameAgain(ev) == last.type = "event" /\ last.event = ev /\ last' = last

\* C2: applying the same CRATE_PICKUP event a second time is a no-op: the inventory of
\* player pid and the crate list stay as the first application left them.
C2_CratePickupIdempotent ==
  [][ SameAgain("CRATE_PICKUP") =>
        /\ G'[CLIENT].players[last.pid].inventory = G[CLIENT].players[last.pid].inventory
        /\ G'[CLIENT].weaponCrates = G[CLIENT].weaponCrates ]_vars

\* C3: applying the same DRAW_OBJ, PROJ_SPAWN, BRICK_BREAK or CHAT message a second time
\* leaves the instance as the first application left it.
C3_OneShotIdempotent ==
  [][ (\E ev \in {"DRAW_OBJ", "PROJ_SPAWN", "BRICK_BREAK", "CHAT"} : SameAgain(ev))
        => G'[CLIENT] = G[CLIENT] ]_vars

\* ------------------------------------------------------------ the session
CRATE_DROPS == {ITEM_MACHINE_GUN, ITEM_ROCKET, ITEM_GRENADE, ITEM_GRAPPLE, ITEM_SWORD, ITEM_PENCIL}

\* The drop Math.random() picks in the explored runs.
Drops == {d \in CRATE_DROPS : d = ITEM_ROCKET}

Keys == { [NoInput EXCEPT !.right = TRUE], [NoInput EXCEPT !.left = TRUE] }

\* A frame count by which a player can have died and lain dead for DEAD_TICKS.
SessionFrame == DEAD_TICKS + INVULN_FRAMES

Dying(p) == [p EXCEPT !.dead = TRUE, !.deadTimer = DEAD_TICKS, !.lives = 1]

\* A session in progress on level 0: both connected and Playing, the players at the goal
\* line, the host one tick short of its next STATE message; w ticks counted at the goal so far (P1 stands past the line if any), d1 / d2:
\* P1 / P2 lies dead on its last life, one tick short of the end of the death timer.
Session(w, d1, d2) ==
  LET p1 == [Player(0, Px(LevelP1Spawn(0).col * TILE), Px(LevelP1Spawn(0).row * TILE))
               EXCEPT !.x = IF w > 0 THEN GoalX(0) + WALK_STEP ELSE GoalX(0)]
      p2 == [Player(1, Px(LevelP2Spawn(0).col * TILE), Px(LevelP2Spawn(0).row * TILE))
               EXCEPT !.x = GoalX(0)]
      ps == [j \in {0, 1} |-> IF j = 0 THEN (IF d1 THEN Dying(p1) ELSE p1)
                                       ELSE (IF d2 THEN Dying(p2) ELSE p2)]
  IN [i \in Inst |->
        [Started[i] EXCEPT
           !.peerConnected = TRUE,
           !.frame = SessionFrame,
           !.syncTimer = IF i = HOST THEN SYNC_RATE - 1 ELSE 0,
           !.winTimer = IF i = HOST THEN w ELSE 0,
           !.players = IF i = HOST THEN ps
                       ELSE [ps EXCEPT ![0].deadTimer = 0]]]

Init ==
  /\ \E w \in {0, WIN_TICKS} : \E d1 \in BOOLEAN : \E d2 \in BOOLEAN :
       /\ G = Session(w, d1, d2)
       /\ consec = w
  /\ chan = [i \in Inst |-> {}]
  /\ timers = [i \in Inst |-> [l \in 0..(LEVEL_COUNT - 1) |-> 0]]
  /\ ticks = MaxTicks
  /\ last = [type |-> "none"]
  /\ prevIds = {}
  /\ inMax = [frame |-> 0, keys |-> NoInput]
  /\ page = [i \in Inst |-> PageOpen]
  /\ arg = NoCall
  /\ ret = NoCall

RECURSIVE StartTimers(_, _, _)
StartTimers(tm, levels, k) ==
  IF k > Len(levels) THEN tm
  ELSE StartTimers([tm EXCEPT ![levels[k]] = @ + 1], levels, k + 1)

RECURSIVE Put(_, _, _)
\* conn.send of each message in turn; one sent while MaxInFlight are in flight is lost.
Put(inflight, msgs, k) ==
  IF k > Len(msgs) THEN inflight
  ELSE Put(IF Cardinality(inflight) < MaxInFlight THEN inflight \cup {msgs[k]} ELSE inflight,
           msgs, k + 1)

\* What a handler call of participant i leaves behind: its instance, its messages on the
\* way to the peer, its timers started.
Emit(i, r) ==
  /\ G' = [G EXCEPT ![i] = r.s]
  /\ chan' = IF page[i].conn = "open" THEN [chan EXCEPT ![1 - i] = Put(@, r.out, 1)] ELSE chan
  /\ timers' = [timers EXCEPT ![i] = StartTimers(@, r.tm, 1)]

\* requestAnimationFrame -> tick() -> update()
Tick(i, keys, drop) ==
  /\ page[i].rafId
  /\ ticks > 0
  /\ G[i].state = "playing"
  /\ \E r \in {update(G[i], keys, drop)} :
       /\ Emit(i, r)
       /\ consec' = IF i # HOST THEN consec ELSE IF AtGoal(r.s) THEN consec + 1 ELSE 0
  /\ ticks' = ticks - 1
  /\ UNCHANGED <<last, prevIds, inMax, page, fnVars>>

\* A 3-second timer of _onGameOver / _onLevelClear fires.
TimerFire(i, l) ==
  /\ timers[i][l] > 0
  /\ \E r \in {Send(Step(resetAndReload(G[i], l)), [type |-> "restart", level |-> l])} :
       /\ G' = [G EXCEPT ![i] = r.s]
       /\ chan' = IF page[i].conn = "open" THEN [chan EXCEPT ![1 - i] = Put(@, r.out, 1)] ELSE chan
  /\ timers' = [timers EXCEPT ![i][l] = @ - 1]
  /\ consec' = IF i = HOST THEN 0 ELSE consec
  /\ UNCHANGED <<ticks, last, prevIds, inMax, page, fnVars>>

\* The data channel hands message m to participant i: conn.on('data') -> _handleNetMsg.
Deliver(i, m) ==
  /\ m \in chan[i]
  /\ G' = [G EXCEPT ![i] = handleNetMsg(@, m)]
  /\ chan' = [chan EXCEPT ![i] = @ \ {m}]
  /\ inMax' = IF i = HOST /\ m.type = "input" /\ m.frame > inMax.frame
              THEN [frame |-> m.frame, keys |-> m.keys] ELSE inMax
  /\ consec' = IF i = HOST /\ m.type = "restart" THEN 0 ELSE consec
  /\ UNCHANGED <<timers, ticks, last, prevIds, page, fnVars>>

\* The unreliable channel loses message m.
Drop(i, m) ==
  /\ m \in chan[i]
  /\ chan' = [chan EXCEPT ![i] = @ \ {m}]
  /\ UNCHANGED <<G, timers, ticks, last, prevIds, inMax, consec, page, fnVars>>

Next ==
  \/ \E i \in Inst : \E keys \in Keys : \E drop \in Drops : Tick(i, keys, drop)
  \/ \E i \in Inst : \E l \in 0..(LEVEL_COUNT - 1) : TimerFire(i, l)
  \/ \E i \in Inst : \E m \in chan[i] : Deliver(i, m)
  \/ \E i \in Inst : \E m \in chan[i] : Drop(i, m)

Spec == Init /\ [][Next]_vars

\* What the schedulers of the two browsers do: run an animation frame, fire a pending
\* timer, hand over a message in flight.
Scheduled ==
  \/ \E i \in Inst : \E keys \in Keys : \E drop \in Drops : Tick(i, keys, drop)
  \/ \E i \in Inst : \E l \in 0..(LEVEL_COUNT - 1) : TimerFire(i, l)
  \/ \E i \in Inst : \E m \in chan[i] : Deliver(i, m)

\* Fairness of the scheduling: the run does not stop while a frame, a timer or a message
\* that was not lost is pending.
FairSpec == Init /\ [][Next]_vars /\ WF_vars(Scheduled)

\* A step in which the host ran update() while Playing.
HostTicked == G'[HOST].frame = G[HOST].frame + 1

\* C4: the remote input the host uses in a tick is that of the INPUT message with the
\* highest frame number it has received.
C4_HighestFrameInputUsed ==
  [][ (HostTicked /\ G[HOST].peerConnected /\ inMax.frame > 0)
        => G[HOST].remoteInput = inMax.keys ]_vars

\* C5: the host enters Win only after more than WIN_TICKS consecutive ticks with a player
\* past the goal column, and a tick with nobody past it restarts the counter.
C5_WinNeedsConsecutiveTicks ==
  [][ HostTicked =>
        /\ (G'[HOST].state = "win" => consec' > WIN_TICKS)
        /\ (~AtGoal(G'[HOST]) => G'[HOST].winTimer = 0) ]_vars

Recovered(i) ==
  /\ G[i].state = "playing"
  /\ G[i].levelIndex = 0
  /\ G[i].players[0].lives = START_LIVES
  /\ G[i].players[1].lives = START_LIVES
  /\ G[i].peerConnected

\* C6: every instance that enters GameOver eventually is Playing again at level 0 with
\* 3 lives for both players and peerConnected as before.
C6_GameOverRecovers ==
  \A i \in Inst : (G[i].state = "gameover") ~> Recovered(i)

AllowedTransitions ==
  { <<"loading", "playing">>, <<"playing", "win">>, <<"playing", "gameover">>,
    <<"win", "playing">>, <<"gameover", "playing">> }

\* C7: an instance changes state only along Loading->Playing, Playing->Win,
\* Playing->GameOver, Win->Playing, GameOver->Playing; and it leaves Win by loading the
\* next level, (index + 1) mod LEVEL_COUNT.
C7_OnlyListedTransitions ==
  [][ \A i \in Inst :
        G'[i].state # G[i].state =>
          /\ <<G[i].state, G'[i].state>> \in AllowedTransitions
          /\ (G[i].state = "win" =>
                G'[i].levelIndex = (G[i].levelIndex + 1) % LEVEL_COUNT) ]_vars

\* C8: RESTART travels from host to client only: no RESTART is ever in flight to the host,
\* and no RESTART arriving at the host reloads its level.
C8_RestartOnlyFromHost ==
  [][ /\ \A m \in chan'[HOST] : m.type # "restart"
      /\ \A m \in chan[HOST] : (m.type = "restart" /\ Deliver(HOST, m)) => G'[HOST] = G[HOST]
    ]_vars

\* C9: STATE travels from host to client only: no STATE is ever in flight to the host, and
\* a STATE message handed to the host leaves the host as it is.
C9_StateOnlyFromHost ==
  /\ \A m \in chan[HOST] : m.type # "state"
  /\ \A m \in StateMsgs \cup {x \in chan[CLIENT] : x.type = "state"} :
       handleNetMsg(G[HOST], m) = G[HOST]

\* The host has sent a STATE that would change it if applied, and the client has run a tick.
C9_Witness ==
  /\ G[CLIENT].frame > SessionFrame
  /\ \E m \in chan[CLIENT] : m.type = "state" /\ applyStateSync(G[HOST], m) # G[HOST]

\* What the simulation of an instance consists of.
Sim(s) ==
  << s.state, s.levelIndex, s.frame, s.players, s.enemies, s.coins, s.powerUps,
     s.weaponCrates, s.projectileList, s.drawnObjects, s.tiles >>

\* C10 as stated: the arrival of a STATE, EVENT or RESTART message changes nothing of the
\* receiver's simulation.
C10_ArrivalsOnlyStaged ==
  [][ \A i \in Inst : \A m \in chan[i] :
        (m.type \in {"state", "event", "restart"} /\ Deliver(i, m))
          => Sim(G'[i]) = Sim(G[i]) ]_vars

\* C10 amended: the arrival of an INPUT message changes only the staged remote input, and
\* the host's next tick walks the remote player by it; a RESTART, and a WIN or GAME_OVER
\* event, take effect in the arrival itself.
C10_OnlyInputIsStaged ==
  [][ /\ \A i \in Inst : \A m \in chan[i] :
           Deliver(i, m) =>
             /\ m.type = "input" => G'[i] = [G[i] EXCEPT !.remoteInput = m.keys]
             /\ m.type = "restart" =>
                  G'[i].state = "playing" /\ G'[i].levelIndex = m.level /\ G'[i].frame = 0
             /\ (m.type = "event" /\ m.event = "WIN") => G'[i].state = "win"
             /\ (m.type = "event" /\ m.event = "GAME_OVER") => G'[i].state = "gameover"
      /\ (HostTicked /\ ~G[HOST].players[CLIENT].dead) =>
           G'[HOST].players[CLIENT].x
             = Walk(G[HOST].players[CLIENT].x, G[HOST].remoteInput, G[HOST].levelIndex)
    ]_vars

\* An INPUT has arrived at the host and is staged, the remote player not yet moved by it.
C10_Witness ==
  /\ inMax.frame > 0
  /\ G[HOST].remoteInput.right
  /\ G[HOST].state = "playing"
  /\ ~G[HOST].players[CLIENT].dead
  /\ G[HOST].players[CLIENT].x = GoalX(0)

\* ------------------------------------------------- the page around the loop
\* The session the loop is followed in: P2 lies dead on its last life.
InitLoop ==
  /\ G = Session(0, FALSE, TRUE)
  /\ consec = 0
  /\ chan = [i \in Inst |-> {}]
  /\ timers = [i \in Inst |-> [l \in 0..(LEVEL_COUNT - 1) |-> 0]]
  /\ ticks = MaxTicks
  /\ last = [type |-> "none"]
  /\ prevIds = {}
  /\ inMax = [frame |-> 0, keys |-> NoInput]
  /\ page = [i \in Inst |-> PageOpen]
  /\ arg = NoCall
  /\ ret = NoCall

\* if (rafId) { cancelAnimationFrame(rafId); rafId = null; }
cancelLoop(pg) == IF pg.rafId THEN [pg EXCEPT !.rafId = FALSE, !.pending = @ - 1] ELSE pg

\* showDisconnect()
showDisconnect(pg) == cancelLoop(pg)

\* The data connection goes down: conn.open turns false at both ends, what was in flight
\* is gone, and each end has its 'close' event to come.
Close ==
  /\ \A i \in Inst : page[i].conn = "open"
  /\ page' = [i \in Inst |-> [page[i] EXCEPT !.conn = "closing"]]
  /\ chan' = [i \in Inst |-> {}]
  /\ UNCHANGED <<G, timers, ticks, last, prevIds, inMax, consec, fnVars>>

\* conn.on('close') -> onDisconnected -> showDisconnect
OnClose(i) ==
  /\ page[i].conn = "closing"
  /\ page' = [page EXCEPT ![i] = showDisconnect([@ EXCEPT !.conn = "closed"])]
  /\ UNCHANGED <<G, chan, timers, ticks, last, prevIds, inMax, consec, fnVars>>

\* visibilitychange with document.hidden: the pending frame is cancelled.
Hide(i) ==
  /\ ~page[i].hidden
  /\ page' = [page EXCEPT ![i] = cancelLoop([@ EXCEPT !.hidden = TRUE])]
  /\ UNCHANGED <<G, chan, timers, ticks, last, prevIds, inMax, consec, fnVars>>

\* visibilitychange with the tab visible again: if (!rafId) loop(), which requests a frame
\* and runs game.tick() at once.
Show(i, keys, drop) ==
  /\ page[i].hidden
  /\ page' = [page EXCEPT ![i] = IF @.rafId THEN [@ EXCEPT !.hidden = FALSE]
                                   ELSE [@ EXCEPT !.hidden = FALSE, !.rafId = TRUE,
                                                  !.pending = @ + 1]]
  /\ IF page[i].rafId
     THEN UNCHANGED <<G, chan, timers, ticks, consec>>
     ELSE /\ ticks > 0
          /\ \E r \in {update(G[i], keys, drop)} :
               /\ Emit(i, r)
               /\ consec' = IF i # HOST \/ G[i].state # "playing" THEN consec
                            ELSE IF AtGoal(r.s) THEN consec + 1 ELSE 0
          /\ ticks' = ticks - 1
  /\ UNCHANGED <<last, prevIds, inMax, fnVars>>

NextLoop ==
  \/ \E i \in Inst : \E keys \in Keys : \E drop \in Drops : Tick(i, keys, drop)
  \/ \E i \in Inst : \E l \in 0..(LEVEL_COUNT - 1) : TimerFire(i, l)
  \/ \E i \in Inst : \E m \in chan[i] : Deliver(i, m)
  \/ \E i \in Inst : \E m \in chan[i] : Drop(i, m)
  \/ Close
  \/ \E i \in Inst : OnClose(i)
  \/ \E i \in Inst : Hide(i)
  \/ \E i \in Inst : \E keys \in Keys : \E drop \in Drops : Show(i, keys, drop)

SpecLoop == InitLoop /\ [][NextLoop]_vars

\* C11: once its end of the connection has closed, a participant whose tab is visible
\* still has an animation frame requested, so its tick loop goes on.
C11_LoopSurvivesDisconnect ==
  \A i \in Inst : (page[i].conn = "closed" /\ ~page[i].hidden) => page[i].rafId

\* ------------------------------------------------------ single function calls
\* The variables a single function call leaves alone.
gameVars == <<G, chan, timers, ticks, last, prevIds, inMax, consec, page>>

\* Nothing of the session moves while one function is called.
Parked ==
  /\ G = Started
  /\ last = [type |-> "none"]
  /\ prevIds = {}
  /\ Quiet

\* ------------------------------------------- Player.serialize / applyState
\* Inventories of slots a player can hold: fresh or partly used, limited or unlimited.
RoundInventories ==
  LET slots == { InventorySlot(ITEM_ROCKET), [InventorySlot(ITEM_ROCKET) EXCEPT !.ammo = 2],
                 InventorySlot(ITEM_GRENADE), InventorySlot(ITEM_SWORD) }
  IN {<<>>} \cup {<<a>> : a \in slots} \cup {<<a, b>> : a \in slots, b \in slots}

\* Positions on and between whole pixels, near the spawn point and far from it.
RoundCoords == {Px(2 * TILE), Px(2 * TILE) + SUB \div 2, Px(9 * TILE) + SUB \div 4, Px(40 * TILE) + 3 * (SUB \div 4)}

\* A fresh Player of the given id, as load() makes it on level 0.
FreshPlayer(id) ==
  IF id = 0 THEN Player(0, Px(LevelP1Spawn(0).col * TILE), Px(LevelP1Spawn(0).row * TILE))
            ELSE Player(1, Px(LevelP2Spawn(0).col * TILE), Px(LevelP2Spawn(0).row * TILE))

RoundPlayers ==
  { [FreshPlayer(id) EXCEPT !.x = x, !.power = pw, !.score = sc, !.inventory = inv,
                            !.activeSlot = IF Len(inv) = 2 THEN 1 ELSE 0] :
      id \in {0, 1}, x \in RoundCoords, pw \in {POWER_SMALL, POWER_BIG, POWER_FIRE},
      sc \in {0, 200}, inv \in RoundInventories }

InitRound ==
  /\ Parked
  /\ arg \in RoundPlayers
  /\ ret = NoCall

\* fresh.applyState(JSON.parse(JSON.stringify(player.serialize())))
RoundTrip ==
  /\ ret = NoCall
  /\ ret' = [called |-> TRUE, player |-> PlayerApplyState(FreshPlayer(arg.id), PlayerSerialize(arg))]
  /\ UNCHANGED <<arg, gameVars>>

SpecRound == InitRound /\ [][RoundTrip]_vars

\* C12: applying serialize(player) to a fresh Player of the same id reproduces power,
\* score and inventory (kinds, order, remaining uses) exactly, and the position within
\* the rounding tolerance of half a pixel.
C12_RoundTripReproduces ==
  ret.called =>
    /\ ret.player.power = arg.power
    /\ ret.player.score = arg.score
    /\ ret.player.inventory = arg.inventory
    /\ 2 * Abs(ret.player.x - arg.x) <= SUB
    /\ 2 * Abs(ret.player.y - arg.y) <= SUB

\* ------------------------------------------------------------ Player.hurt
HurtPlayers ==
  { [FreshPlayer(id) EXCEPT !.power = pw, !.invuln = iv, !.dead = d, !.lives = lv] :
      id \in {0, 1}, pw \in {POWER_SMALL, POWER_BIG, POWER_FIRE},
      iv \in {0, 1, INVULN_FRAMES - 1, INVULN_FRAMES}, d \in BOOLEAN, lv \in {1, START_LIVES} }

InitHurt ==
  /\ Parked
  /\ arg \in HurtPlayers
  /\ ret = NoCall

\* player.hurt()
CallHurt ==
  /\ ret = NoCall
  /\ ret' = [called |-> TRUE, player |-> hurt(arg)]
  /\ UNCHANGED <<arg, gameVars>>

SpecHurt == InitHurt /\ [][CallHurt]_vars

\* C14: hurt() on a live player with invuln 0 kills a SMALL player and turns a BIG or FIRE
\* player SMALL, alive, with invuln INVULN_FRAMES; on a dead player or one with invuln > 0
\* it changes nothing.
C14_HurtByTier ==
  ret.called =>
    IF arg.dead \/ arg.invuln > 0 THEN ret.player = arg
    ELSE IF arg.power = POWER_SMALL THEN ret.player.dead
    ELSE /\ ~ret.player.dead
         /\ ret.player.power = POWER_SMALL
         /\ ret.player.invuln = INVULN_FRAMES

\* A FIRE player with no invulnerability left has been hurt.
C14_Witness ==
  /\ ret.called
  /\ ~arg.dead /\ arg.invuln = 0 /\ arg.power = POWER_FIRE
  /\ ret.player.power = POWER_SMALL

\* ------------------------------------------------------------- stompCheck

\* The box B: an enemy of each height, at a fixed place.
StompB == { [x |-> Px(100), y |-> Px(100), w |-> 28, h |-> hh] : hh \in {18, 28, 36} }

\* Boxes A around the edges of B's margin and around B's vertical midpoint.
StompA(b) ==
  { [x |-> x, y |-> y, vy |-> vy, w |-> SMALL_W, h |-> SMALL_H] :
      x  \in { b.x - Px(SMALL_W) + d : d \in {Px(1), Px(2), Px(2) + 1, Px(12)} }
              \cup { b.x + Px(b.w) - d : d \in {Px(1), Px(2), Px(2) + 1} },
      y  \in { b.y + (Px(b.h) \div 2) - Px(SMALL_H) + e : e \in {0 - Px(4), 0 - 1, 0, 1, Px(4)} },
      vy \in {0 - SUB, 0, 1, SUB} }

InitStomp ==
  /\ Parked
  /\ \E b \in StompB : \E a \in StompA(b) : arg = [a |-> a, b |-> b]
  /\ ret = NoCall

\* stompCheck(A, B)
CallStompCheck ==
  /\ ret = NoCall
  /\ ret' = [called |-> TRUE,
             stomp |-> stompCheck(arg.a, arg.a.w, arg.a.h, arg.b, arg.b.w, arg.b.h),
             overlap |-> overlaps(arg.a, arg.a.w, arg.a.h, arg.b, arg.b.w, arg.b.h)]
  /\ UNCHANGED <<arg, gameVars>>

SpecStomp == InitStomp /\ [][CallStompCheck]_vars

\* C17: stompCheck(A, B) is true exactly when A falls (vy > 0), A's bottom is not below
\* B's vertical midpoint, and A reaches more than 2 px inside each side of B; so it is
\* false whenever A's bottom is below B's midpoint, overlapping boxes or not.
C17_StompCheckIff ==
  ret.called =>
    /\ ret.stomp <=> /\ arg.a.vy > 0
                     /\ 2 * (arg.a.y + Px(arg.a.h)) <= 2 * arg.b.y + Px(arg.b.h)
                     /\ arg.a.x + Px(arg.a.w) - (arg.b.x + Px(2)) > 0
                     /\ (arg.b.x + Px(arg.b.w) - Px(2)) - arg.a.x > 0
    /\ 2 * (arg.a.y + Px(arg.a.h)) > 2 * arg.b.y + Px(arg.b.h) => ~ret.stomp

\* A side approach: the boxes overlap, A falls, its bottom is below B's midpoint, and
\* stompCheck said no.
C17_Witness ==
  /\ ret.called
  /\ ret.overlap /\ arg.a.vy > 0
  /\ 2 * (arg.a.y + Px(arg.a.h)) > 2 * arg.b.y + Px(arg.b.h)
  /\ ~ret.stomp

\* ---------------------------------------------------------- resolveEntity
\* What resolveAxis does at one solid tile (col, row). r = [ent, blocksHit].
AxisCellKeepsFalling(r, axis, col, row) ==
  LET e  == r.ent
      tx == Px(col * TILE)
      ty == Px(row * TILE)
  IN IF axis = "x"
     THEN [r EXCEPT !.ent.x = IF e.vx > 0 THEN tx - Px(e.w)
                              ELSE IF e.vx < 0 THEN tx + Px(TILE) ELSE @,
                    !.ent.vx = 0,
                    !.ent.hitWall = TRUE]
     ELSE IF e.vy > 0
     THEN [r EXCEPT !.ent.y = ty - Px(e.h), !.ent.onGround = TRUE]
     ELSE IF e.vy < 0
     THEN [r EXCEPT !.ent.y = ty + Px(TILE), !.ent.vy = 0, !.ent.hitCeiling = TRUE,
                    !.blocksHit = Append(@, [col |-> col, row |-> row])]
     ELSE r

AxisCell(r, axis, col, row) ==
  LET e  == r.ent
      tx == Px(col * TILE)
      ty == Px(row * TILE)
  IN IF axis = "x"
     THEN [r EXCEPT !.ent.x = IF e.vx > 0 THEN tx - Px(e.w)
                              ELSE IF e.vx < 0 THEN tx + Px(TILE) ELSE @,
                    !.ent.vx = 0,
                    !.ent.hitWall = TRUE]
     ELSE IF e.vy > 0
     THEN [r EXCEPT !.ent.y = ty - Px(e.h), !.ent.vy = 0, !.ent.onGround = TRUE]
     ELSE IF e.vy < 0
     THEN [r EXCEPT !.ent.y = ty + Px(TILE), !.ent.vy = 0, !.ent.hitCeiling = TRUE,
                    !.blocksHit = Append(@, [col |-> col, row |-> row])]
     ELSE r

RECURSIVE AxisLoop(_, _, _, _, _, _, _, _)
\* for (row = rowMin; row <= rowMax; row++) for (col = colMin; col <= colMax; col++)
AxisLoop(r, solid, axis, row, col, colMin, colMax, rowMax) ==
  IF row > rowMax THEN r
  ELSE IF col > colMax THEN AxisLoop(r, solid, axis, row + 1, colMin, colMin, colMax, rowMax)
  ELSE AxisLoop(IF <<col, row>> \in solid THEN AxisCell(r, axis, col, row) ELSE r,
                solid, axis, row, col + 1, colMin, colMax, rowMax)

\* resolveAxis: the tile range is taken from the box on entry; "- 0.01" lowers a whole
\* number of 1/64 px to the unit before it.
resolveAxis(r, solid, axis) ==
  LET e      == r.ent
      colMin == e.x \div Px(TILE)
      colMax == (e.x + Px(e.w) - 1) \div Px(TILE)
      rowMin == e.y \div Px(TILE)
      rowMax == (e.y + Px(e.h) - 1) \div Px(TILE)
  IN AxisLoop(r, solid, axis, rowMin, colMin, colMin, colMax, rowMax)

\* resolveEntity(entity, level): vertical first when rising, horizontal first otherwise.
resolveEntity(ent, solid) ==
  LET r0 == [ent |-> ent, blocksHit |-> <<>>]
  IN IF ent.vy < 0
     THEN LET r1 == resolveAxis([r0 EXCEPT !.ent.y = @ + ent.vy], solid, "y")
          IN resolveAxis([r1 EXCEPT !.ent.x = @ + r1.ent.vx], solid, "x")
     ELSE LET r1 == resolveAxis([r0 EXCEPT !.ent.x = @ + ent.vx], solid, "x")
          IN resolveAxis([r1 EXCEPT !.ent.y = @ + r1.ent.vy], solid, "y")

\* Pieces of terrain around row 10: a floor, a floor with a wall on it, a floor two tiles
\* thick, a floor with a one-tile step, a floor with one block overhead, a floor with
\* two blocks side by side overhead.
ResolveLevels ==
  LET floor == { <<c, 10>> : c \in 2..6 }
  IN { floor,
       floor \cup { <<5, 9>>, <<5, 8>> },
       floor \cup { <<c, 11>> : c \in 2..6 },
       floor \cup { <<5, 9>> },
       floor \cup { <<2, 8>> },
       floor \cup { <<2, 8>>, <<3, 8>> } }

\* Falling or rising entities of player size above the floor, clear of every solid tile:
\* beside the wall, in the open, or two pixels into the column of the block overhead.
ResolveEntities ==
  { [x |-> x, y |-> Px(10 * TILE - SMALL_H) - up, vx |-> vx, vy |-> vy,
     w |-> SMALL_W, h |-> SMALL_H, onGround |-> FALSE, hitWall |-> FALSE, hitCeiling |-> FALSE] :
      x  \in {Px(3 * TILE - 2), Px(3 * TILE), Px(3 * TILE + 20), Px(5 * TILE - SMALL_W),
              Px(5 * TILE - SMALL_W - 2)},
      up \in {0, Px(1), Px(10), Px(40)},
      vx \in {0 - Px(3), 0, Px(3)},
      vy \in {0 - Px(4), SUB \div 2, Px(5), Px(14)} }

\* AABB intersection of a box with tile c.
BoxMeetsTile(x, y, w, h, c) ==
  /\ x < Px((c[1] + 1) * TILE) /\ x + Px(w) > Px(c[1] * TILE)
  /\ y < Px((c[2] + 1) * TILE) /\ y + Px(h) > Px(c[2] * TILE)

InitResolve ==
  /\ Parked
  /\ \E solid \in ResolveLevels : \E e \in ResolveEntities :
       /\ \A c \in solid : ~BoxMeetsTile(e.x, e.y, e.w, e.h, c)
       /\ arg = [ent |-> e, solid |-> solid]
  /\ ret = NoCall

\* resolveEntity(entity, level)
CallResolveEntity ==
  /\ ret = NoCall
  /\ ret' = [called |-> TRUE] @@ resolveEntity(arg.ent, arg.solid)
  /\ UNCHANGED <<arg, gameVars>>

SpecResolve == InitResolve /\ [][CallResolveEntity]_vars

\* C18: a falling entity whose box, moved by its velocity, intersects a solid tile T ends
\* with its bottom edge on T's top edge, on the ground, with vy 0 -- for every such T,
\* other solid tiles intersected or not.
C18_LandsOnEveryTileMet ==
  (ret.called /\ arg.ent.vy > 0) =>
    \A c \in arg.solid :
      BoxMeetsTile(arg.ent.x + arg.ent.vx, arg.ent.y + arg.ent.vy, arg.ent.w, arg.ent.h, c)
        => /\ ret.ent.y + Px(ret.ent.h) = Px(c[2] * TILE)
           /\ ret.ent.onGround
           /\ ret.ent.vy = 0

\* The solid tiles the box meets in the vertical pass: after the horizontal pass has
\* placed it, moved down by vy.
MetBelow ==
  { c \in arg.solid :
      BoxMeetsTile(ret.ent.x, arg.ent.y + arg.ent.vy, arg.ent.w, arg.ent.h, c) }

\* C18, as the code has it: a falling entity that meets solid tiles in the vertical pass
\* ends with its bottom edge on the top edge of the highest row met, on the ground, with
\* vy 0; one that meets none keeps falling: y advanced by vy, vy kept, not on the ground.
\* A tile met only sideways stops the horizontal movement instead.
C18_LandsOnTileBelow ==
  (ret.called /\ arg.ent.vy > 0) =>
    IF MetBelow # {}
    THEN /\ \E c \in MetBelow :
              /\ \A d \in MetBelow : c[2] <= d[2]
              /\ ret.ent.y + Px(ret.ent.h) = Px(c[2] * TILE)
         /\ ret.ent.onGround
         /\ ret.ent.vy = 0
    ELSE /\ ret.ent.y = arg.ent.y + arg.ent.vy
         /\ ret.ent.vy = arg.ent.vy
         /\ ~ret.ent.onGround

\* An entity falling into the corner of wall and floor: stopped by the wall and landed.
C18_Witness ==
  /\ ret.called /\ arg.ent.vy > 0
  /\ ret.ent.hitWall
  /\ ret.ent.onGround
  /\ ret.ent.y + Px(ret.ent.h) = Px(10 * TILE)


\* ------------------------------------------------------- a stretch of level 0
MaxWorldTicks == 3

\* The top of the ground under the blocks of columns 18 to 22.
GROUND_TOP == 12 * TILE

\* The enemy of the spawn at (21, 11), in the stages an enemy of each kind goes through:
\* walking, a shell at rest, a kicked shell.
WorldEnemies ==
  LET at(type) == [Enemy(FIRST_ENEMY_ID, type, Px(21 * TILE + 2), Px(GROUND_TOP))
                     EXCEPT !.y = Px(GROUND_TOP - EnemyH(type))]
      shell    == EnemyStomp(at("Koopa")).e
  IN { at("Goomba"), at("Lizard"), at("Koopa"), shell, EnemyStomp(shell).e }

\* A stretch of level 0 in the solo game of main.js (new Game(canvas, null, 0), load(0)),
\* some time in: the player with c0 coins and power pw; the enemy en and the Goomba of the
\* spawn at (18, 11); a coin on the ground at column 17; and in the air nothing, or a
\* grenade at rest between the enemies two ticks from the end of its fuse, or a grenade
\* that reached the second enemy, or a grenade thrown up and to the left from the spawn
\* point 36 ticks ago, now falling beyond the left edge of the map, or a blast between the
\* enemies, thirteen ticks old.
World(c0, pw, en, scene) ==
  LET lvl     == load(Game(0, FALSE), 0)
      second  == [Enemy(FIRST_ENEMY_ID + 1, "Goomba", Px(18 * TILE + 2), Px(10 * TILE))
                    EXCEPT !.y = Px(GROUND_TOP - EnemyH("Goomba"))]
      grenade ==
        CASE scene = "fuse" ->
               [GrenadeProj(lvl.nid, Px(635), Px(GROUND_TOP - 10), 0, 0)
                  EXCEPT !.life = 2]
          [] scene = "struck" ->
               [GrenadeProj(lvl.nid, Px(572), Px(GROUND_TOP - 20), Px(4), Px(2))
                  EXCEPT !.life = GRENADE_FUSE - 30]
          [] OTHER ->
               [GrenadeProj(lvl.nid, 0 - Px(128), Px(LevelRows * TILE + 52),
                            0 - 362, MAX_FALL)
                  EXCEPT !.life = GRENADE_FUSE - 36]
      blast   == [Explosion(lvl.nid, Px(640), Px(GROUND_TOP - 5))
                    EXCEPT !.timer = 9, !.radius = (Px(BLAST_RADIUS) * 13) \div BLAST_TICKS]
  IN [lvl EXCEPT
        !.players[0].x = Px(500),
        !.players[0].y = Px(GROUND_TOP - SMALL_H),
        !.players[0].coins = c0,
        !.players[0].score = 200 * c0,
        !.players[0].power = pw,
        !.enemies = <<en, second>>,
        !.nextEnemyId = FIRST_ENEMY_ID + 2,
        !.coins = << Coin(FIRST_COLL_ID, Px(17 * TILE + 8), Px(11 * TILE), FALSE) >>,
        !.nextCollId = FIRST_COLL_ID + 1,
        !.projectileList = IF scene \in {"fuse", "struck", "fallen"} THEN <<grenade>> ELSE <<>>,
        !.explosions = IF scene = "blast" THEN <<blast>> ELSE <<>>,
        !.nid = @ + 1,
        !.frame = 30]

\* Where a jump or a fall can leave the player at the end of a tick: on the coin, with
\* its head against the question block at (19, 5), coming down on the first enemy (at
\* its full height, and lower on one that shrank), standing against the first enemy.
Spots ==
  { NoMove,
    [moved |-> TRUE, x |-> Px(548), y |-> Px(GROUND_TOP - SMALL_H), vy |-> 0, hits |-> <<>>],
    [moved |-> TRUE, x |-> Px(612), y |-> Px(6 * TILE), vy |-> 0, hits |-> << <<19, 5>> >>],
    [moved |-> TRUE, x |-> Px(676), y |-> Px(GROUND_TOP - 22 - SMALL_H), vy |-> Px(4),
     hits |-> <<>>],
    [moved |-> TRUE, x |-> Px(676), y |-> Px(GROUND_TOP - 14 - SMALL_H), vy |-> Px(4),
     hits |-> <<>>],
    [moved |-> TRUE, x |-> Px(654), y |-> Px(GROUND_TOP - SMALL_H), vy |-> 0, hits |-> <<>>] }

InitWorld ==
  /\ \E c0 \in {0, 99} : \E pw \in {POWER_SMALL, POWER_BIG} :
     \E en \in WorldEnemies :
     \E scene \in {"clear", "fuse", "struck", "fallen", "blast"} :
       G = [Started EXCEPT ![HOST] = World(c0, pw, en, scene)]
  /\ chan = [i \in Inst |-> {}]
  /\ timers = [i \in Inst |-> [l \in 0..(LEVEL_COUNT - 1) |-> 0]]
  /\ ticks = MaxWorldTicks
  /\ last = [type |-> "none"]
  /\ prevIds = {}
  /\ inMax = [frame |-> 0, keys |-> NoInput]
  /\ consec = 0
  /\ page = [i \in Inst |-> PageOpen]
  /\ arg = NoCall
  /\ ret = [called |-> FALSE, before |-> G[HOST], log |-> <<>>, blasts |-> <<>>]

\* requestAnimationFrame -> tick() -> update() of the solo game; ret keeps the instance
\* before the tick, the calls of the tick, and the blasts of all ticks.
WorldTick(keys, drop, m) ==
  /\ page[HOST].rafId
  /\ ticks > 0
  /\ G[HOST].state = "playing"
  /\ \E r \in {updateMoved(G[HOST], keys, drop, [j \in {0, 1} |-> IF j = 0 THEN m ELSE NoMove])} :
       /\ Emit(HOST, r)
       /\ consec' = IF AtGoal(r.s) THEN consec + 1 ELSE 0
       /\ ret' = [called |-> TRUE, before |-> G[HOST], log |-> r.log,
                  blasts |-> ret.blasts \o SelectSeq(r.log, LAMBDA n : n.kind = "blast")]
  /\ ticks' = ticks - 1
  /\ UNCHANGED <<last, prevIds, inMax, page, arg>>

NextWorld == \E keys \in Keys : \E drop \in Drops : \E m \in Spots : WorldTick(keys, drop, m)

SpecWorld == InitWorld /\ [][NextWorld]_vars

\* The entries of one kind in the calls of the last tick.
Logged(kind) == SelectSeq(ret.log, LAMBDA n : n.kind = kind)

C15_LizardStages ==
  /\ \A k \in 1..Len(ret.log) :
       LET n == ret.log[k]
       IN n.kind = "enemy" /\ n.e.type = "Lizard" =>
            /\ ~n.e.dead
            /\ n.stomp /\ n.e.stomps = 0 =>
                 /\ n.pts = 100 /\ ~n.f.dead /\ n.f.stomps = 1
                 /\ n.f.h < n.e.h /\ n.f.spd < n.e.spd
            /\ n.stomp /\ n.e.stomps = 1 => n.pts = 200 /\ n.f.dead
            /\ n.stomp => n.e.stomps \in {0, 1}
  /\ \A k \in 1..Len(G[HOST].enemies) :
       LET e == G[HOST].enemies[k]
       IN e.type = "Lizard" =>
            /\ e.dead => EnemyStomp(e) = [e |-> e, pts |-> 0]
            /\ e.stomps \in {0, 1, 2}
            /\ e.stomps = 2 => e.dead

\* The Lizard has been stomped twice and lies dead, the player 300 points up, and a tick
\* has passed over the dead Lizard with the player coming down on it.
C15_Witness ==
  /\ ret.called
  /\ \E k \in 1..Len(G[HOST].enemies) :
       /\ G[HOST].enemies[k].type = "Lizard"
       /\ G[HOST].enemies[k].dead /\ G[HOST].enemies[k].stomps = 2
  /\ \E k \in 1..Len(ret.before.enemies) :
       ret.before.enemies[k].type = "Lizard" /\ ret.before.enemies[k].dead
  /\ G[HOST].players[0].vy > 0
  /\ G[HOST].players[0].score = 200 * G[HOST].players[0].coins + 300

\* C16: in the collision pass, a player who overlaps a Koopa in its shell at rest is not
\* hurt by it; a live player without stomp grace and without invulnerability who overlaps
\* a moving shell and does not stomp it is hurt: it dies if small, and otherwise becomes
\* small and invulnerable.
C16_ShellContact ==
  \A k \in 1..Len(ret.log) :
    LET n == ret.log[k]
    IN n.kind = "enemy" /\ n.e.type = "Koopa" =>
         /\ n.e.shelled /\ ~n.e.shellMoving =>
              /\ n.q.dead = n.p.dead /\ n.q.power = n.p.power /\ n.q.invuln = n.p.invuln
              /\ \A i \in 1..Len(n.q.events) : n.q.events[i].type \notin {"HURT", "DIED"}
         /\ n.e.shellMoving /\ ~n.stomp /\ ~n.p.dead /\ n.p.stompGrace = 0 /\ n.p.invuln = 0 =>
              IF n.p.power = POWER_SMALL THEN n.q.dead
              ELSE ~n.q.dead /\ n.q.power = POWER_SMALL /\ n.q.invuln = INVULN_FRAMES

\* A big player has stood against a moving shell and been made small.
C16_Witness ==
  /\ ret.called
  /\ \E k \in 1..Len(ret.log) :
       /\ ret.log[k].kind = "enemy" /\ ret.log[k].e.type = "Koopa"
       /\ ret.log[k].e.shellMoving /\ ~ret.log[k].stomp
       /\ ret.log[k].p.power = POWER_BIG /\ ret.log[k].q.power = POWER_SMALL


\* C19: a grenade that leaves the projectile list in a tick without having been struck
\* against an enemy has gone off: its fuse is at zero, it is marked exploded, and an
\* Explosion was added in that tick.
C19_GrenadeAlwaysDetonates ==
  \A k \in 1..Len(ret.log) :
    LET n == ret.log[k]
    IN n.kind = "gone" /\ n.proj = ITEM_GRENADE
       /\ (\A i \in 1..Len(ret.log) : ~(ret.log[i].kind = "struck" /\ ret.log[i].id = n.id)) =>
         /\ n.life <= 0
         /\ n.exploded
         /\ Len(Logged("explosion")) > 0

\* Whether the centre of enemy e lies within the radius the explosion x has.
InReach(x, e) ==
  LET dx == EnemyCx(e) - x.cx
      dy == EnemyCy(e) - x.cy
  IN /\ Abs(dx) <= x.radius /\ Abs(dy) <= x.radius
     /\ dx * dx + dy * dy <= x.radius * x.radius

\* How often explosion xid has damaged enemy eid, in a sequence of calls.
Blasts(log, xid, eid) ==
  Cardinality({k \in 1..Len(log) :
                 log[k].kind = "blast" /\ log[k].xid = xid /\ log[k].eid = eid})

\* C20: over its whole life an explosion damages no enemy twice; and a living enemy not
\* yet hit whose centre is within its radius in a collision pass is damaged by it in
\* that pass, once, unless the enemy was killed earlier in the same pass by a stomp, a
\* shell or another explosion; after the pass it is dead.
C20_BlastOncePerEnemy ==
  /\ \A i, j \in 1..Len(ret.blasts) :
       i # j => ~(ret.blasts[i].xid = ret.blasts[j].xid /\ ret.blasts[i].eid = ret.blasts[j].eid)
  /\ ret.called =>
       \A kx \in 1..Len(ret.before.explosions) : \A ke \in 1..Len(G[HOST].enemies) :
         LET x      == ret.before.explosions[kx]
             e      == G[HOST].enemies[ke]
             was    == SelectSeq(ret.before.enemies, LAMBDA b : b.id = e.id)
             others == {k \in 1..Len(ret.log) :
                          \/ /\ ret.log[k].kind = "blast"
                             /\ ret.log[k].eid = e.id /\ ret.log[k].xid # x.id
                          \/ ret.log[k].kind = "shell" /\ ret.log[k].eid = e.id
                          \/ /\ ret.log[k].kind = "enemy"
                             /\ ret.log[k].e.id = e.id /\ ret.log[k].f.dead}
         IN InReach(x, e) /\ e.id \notin x.hitIds =>
              /\ e.dead
              /\ Len(was) = 1 /\ ~was[1].dead /\ others = {} => Blasts(ret.log, x.id, e.id) = 1

\* An explosion that damaged both enemies in an earlier tick has gone through another
\* collision pass with both still within its radius.
C20_Witness ==
  /\ ret.called
  /\ Len(ret.blasts) = 2 /\ Len(Logged("blast")) = 0
  /\ \E kx \in 1..Len(ret.before.explosions) :
       /\ Cardinality(ret.before.explosions[kx].hitIds) = 2
       /\ \A ke \in 1..Len(G[HOST].enemies) :
            InReach(ret.before.explosions[kx], G[HOST].enemies[ke])

\* ------------------------------------------------- a session at the blocks
MaxBlockTicks == 3

\* Where a jump leaves a player at the end of a tick: with its head against the question
\* block at (19, 5), or against the brick at (20, 5).
HeadSpots ==
  { NoMove,
    [moved |-> TRUE, x |-> Px(612), y |-> Px(6 * TILE), vy |-> 0, hits |-> << <<19, 5>> >>],
    [moved |-> TRUE, x |-> Px(644), y |-> Px(6 * TILE), vy |-> 0, hits |-> << <<20, 5>> >>] }

\* A session in progress on level 0, both connected and Playing, the players on the
\* ground under the blocks; pw1 / pw2 the power of P1 / P2. In flight to the client there
\* is nothing, or a BRICK_BREAK event that names the cell (19, 5): the event carries no
\* level and no sender, as a peer whose grid has a brick in that cell sends it.
InitBlocks ==
  /\ \E pw1 \in {POWER_SMALL, POWER_BIG} : \E pw2 \in {POWER_SMALL, POWER_BIG} :
       G = [i \in Inst |->
              [Started[i] EXCEPT
                 !.peerConnected = TRUE,
                 !.frame = 30,
                 !.players[0].x = Px(612), !.players[0].y = Px(GROUND_TOP - SMALL_H),
                 !.players[0].power = pw1,
                 !.players[1].x = Px(644), !.players[1].y = Px(GROUND_TOP - SMALL_H),
                 !.players[1].power = pw2]]
  /\ \E late \in SUBSET {[type |-> "event", event |-> "BRICK_BREAK", col |-> 19, row |-> 5]} :
       chan = [i \in Inst |-> IF i = CLIENT THEN late ELSE {}]
  /\ timers = [i \in Inst |-> [l \in 0..(LEVEL_COUNT - 1) |-> 0]]
  /\ ticks = MaxBlockTicks
  /\ last = [type |-> "none"]
  /\ prevIds = {}
  /\ inMax = [frame |-> 0, keys |-> NoInput]
  /\ consec = 0
  /\ page = [i \in Inst |-> PageOpen]
  /\ arg = NoCall
  /\ ret = NoCall

\* requestAnimationFrame -> tick() -> update() of participant i: its own player ends the
\* tick at m, and on the host the remote player, moved by the staged input, at n.
JumpTick(i, keys, drop, m, n) ==
  /\ page[i].rafId
  /\ ticks > 0
  /\ G[i].state = "playing"
  /\ \E r \in {updateMoved(G[i], keys, drop, [j \in {0, 1} |-> IF j = i THEN m ELSE n])} :
       /\ Emit(i, r)
       /\ consec' = IF i # HOST THEN consec ELSE IF AtGoal(r.s) THEN consec + 1 ELSE 0
  /\ ticks' = ticks - 1
  /\ UNCHANGED <<last, prevIds, inMax, page, fnVars>>

NextBlocks ==
  \/ \E i \in Inst : \E keys \in Keys : \E drop \in Drops : \E m \in HeadSpots :
       JumpTick(i, keys, drop, m, NoMove)
  \/ \E i \in Inst : \E m \in chan[i] : Deliver(i, m)
  \/ \E i \in Inst : \E m \in chan[i] : Drop(i, m)

SpecBlocks == InitBlocks /\ [][NextBlocks]_vars

C22_HostGridOnlyByHostHits ==
  [][ G'[HOST].tiles # G[HOST].tiles => HostTicked ]_vars

\* ------------------------------------------------- a session at the crates
MaxCrateTicks == 3

\* An input with the mouse button clicked in this tick.
Click == [NoInput EXCEPT !.mouseDown = TRUE, !.mouseClicked = TRUE]

\* Where a jump leaves a player at the end of a tick: in the air through the crates of
\* columns 12 and 13, 14 and 15, or 16 and 17 (a player 24 wide meets two crates 28 wide
\* that lie 32 apart).
CrateSpots ==
  { NoMove } \cup
  { [moved |-> TRUE, x |-> Px(c * TILE + 16), y |-> Px(10 * TILE + 8), vy |-> 0, hits |-> <<>>] :
      c \in {12, 14, 16} }

\* A session in progress on level 0, both connected and Playing, no crate picked up yet.
InitCrates ==
  /\ G = [i \in Inst |-> [Started[i] EXCEPT !.peerConnected = TRUE, !.frame = 30]]
  /\ chan = [i \in Inst |-> {}]
  /\ timers = [i \in Inst |-> [l \in 0..(LEVEL_COUNT - 1) |-> 0]]
  /\ ticks = MaxCrateTicks
  /\ last = [type |-> "none"]
  /\ prevIds = {}
  /\ inMax = [frame |-> 0, keys |-> NoInput]
  /\ consec = 0
  /\ page = [i \in Inst |-> PageOpen]
  /\ arg = NoCall
  /\ ret = NoCall

\* A tick of a participant; on the host the remote player stays where it was or jumps
\* beside the host's player.
NextCrates ==
  \/ \E i \in Inst : \E keys \in {NoInput, Click} : \E drop \in Drops :
     \E m \in CrateSpots : \E n \in {NoMove, m} :
       (i = HOST \/ n = NoMove) /\ JumpTick(i, keys, drop, m, n)
  \/ \E i \in Inst : \E m \in chan[i] : Deliver(i, m)

SpecCrates == InitCrates /\ [][NextCrates]_vars

\* C23: in every reachable state of host and client every player's inventory holds at
\* most 5 slots, under crate pickups, CRATE_PICKUP events, weapon firing and snapshots.
C23_InventoryAtMostFive ==
  \A i \in Inst : \A j \in {0, 1} : Len(G[i].players[j].inventory) <= 5

\* The host's player went through all six crates and holds five slots, one of them
\* fired from (the sixth pickup added nothing); the client's mirror of that player holds
\* the four slots of the last snapshot.
C23_Witness ==
  /\ G[HOST].weaponCrates = <<>>
  /\ Len(G[HOST].players[0].inventory) = 5
  /\ \E k \in 1..5 : G[HOST].players[0].inventory[k].ammo < ITEM_MAX_AMMO(ITEM_ROCKET)
  /\ Len(G[CLIENT].players[0].inventory) = 4

\* ------------------------------------------------- Player.applyState, position
MaxApplies    == 34
SettleApplies == 30

\* How far from the snapshot position the client's copy of the player stands, per axis,
\* in 1/64 pixel: on it, beside it, well inside, at and beyond the threshold.
SnapOffsets ==
  LET near == {0, 1, 3, 4, 5, Px(60) + 7, Px(100), Px(SNAP_DIST), Px(SNAP_DIST) + 1, Px(200)}
  IN near \cup {0 - d : d \in near}

\* The client's copy of a player and a snapshot of that player as the host serialized it
\* (whole pixels).
InitSnap ==
  /\ Parked
  /\ \E dx \in SnapOffsets : \E dy \in {0, 3, 0 - Px(60) - 7, Px(100), Px(SNAP_DIST) + 1} :
       arg = [p |-> [FreshPlayer(1) EXCEPT !.x = Px(600) + dx, !.y = Px(300) + dy],
              s |-> PlayerSerialize([FreshPlayer(1) EXCEPT !.x = Px(600), !.y = Px(300)])]
  /\ ret = [called |-> FALSE, n |-> 0]

\* _applyStateSync hands the same snapshot to player.applyState once more.
ApplySnapshot ==
  /\ ret.n < MaxApplies
  /\ arg' = [arg EXCEPT !.p = PlayerApplyState(arg.p, arg.s)]
  /\ ret' = [called |-> TRUE, n |-> ret.n + 1, before |-> arg.p]
  /\ UNCHANGED gameVars

SpecSnap == InitSnap /\ [][ApplySnapshot]_vars

\* C24: applying a snapshot puts the player exactly on the snapshot position when that
\* lay more than 120 px away; otherwise it moves the player a quarter of the way
\* on each axis (to the 1/64 pixel), never further from the snapshot, and repeating the
\* same snapshot brings the player to it (within 1/16 px after SettleApplies times).
C24_SnapOrBlend ==
  ret.called =>
    LET dx  == arg.s.x - ret.before.x
        dy  == arg.s.y - ret.before.y
        far == \/ Abs(dx) > 120 * SUB
               \/ Abs(dy) > 120 * SUB
               \/ dx * dx + dy * dy > (120 * SUB) * (120 * SUB)
        ex  == arg.s.x - arg.p.x
        ey  == arg.s.y - arg.p.y
    IN /\ far => ex = 0 /\ ey = 0
       /\ ~far => /\ 4 * (arg.p.x - ret.before.x) <= dx /\ dx < 4 * (arg.p.x - ret.before.x) + 4
                  /\ 4 * (arg.p.y - ret.before.y) <= dy /\ dy < 4 * (arg.p.y - ret.before.y) + 4
                  /\ Abs(ex) <= Abs(dx) /\ Abs(ey) <= Abs(dy)
                  /\ ex * dx >= 0 /\ ey * dy >= 0
       /\ ret.n >= SettleApplies => Abs(ex) < 4 /\ Abs(ey) < 4

\* A player 100 px off on both axes (141 px away) was put on the snapshot position at
\* once, and one 120 px off on one axis has come within 1/16 px after many blends.
C24_Witness ==
  /\ ret.called
  /\ \/ /\ ret.n = 1
        /\ Abs(arg.s.x - ret.before.x) = Px(100) /\ Abs(arg.s.y - ret.before.y) = Px(100)
        /\ arg.p.x = arg.s.x /\ arg.p.y = arg.s.y
     \/ /\ ret.n = SettleApplies
        /\ Abs(arg.s.x - arg.p.x) < 4
        /\ ret.before.x # arg.s.x

\* C25: after the client applies a STATE message, every coin id and every power-up id
\* the message lists as not dead has a mirror in the client's coin / power-up list.
C25_LiveIdsHaveMirrors ==
  last.type = "state" =>
    /\ \A k \in 1..Len(last.coins) :
         ~last.coins[k].dead => last.coins[k].id \in SeqIds(G[CLIENT].coins)
    /\ \A k \in 1..Len(last.powerUps) :
         ~last.powerUps[k].dead => last.powerUps[k].id \in SeqIds(G[CLIENT].powerUps)

\* ------------------------------------------------- a session with dead entities
MaxCullTicks == 3

\* A session in progress on level 0, both connected and Playing: on the host a mushroom
\* that left its block rests on the ground at column 20, and a Goomba stomped dt ticks
\* ago lies dead; the host counted st ticks since its last STATE message, and the client
\* has applied that message.
InitCull ==
  /\ \E dt \in {0, 59, 60} : \E st \in 0..(SYNC_RATE - 1) :
       LET host == [Started[HOST] EXCEPT
                      !.peerConnected = TRUE,
                      !.frame = 30,
                      !.players[0].x = Px(500), !.players[0].y = Px(GROUND_TOP - SMALL_H),
                      !.players[1].x = Px(700), !.players[1].y = Px(GROUND_TOP - SMALL_H),
                      !.powerUps = << [PowerUp(FIRST_COLL_ID, Px(640), Px(GROUND_TOP - 28), "M")
                                         EXCEPT !.emerging = FALSE] >>,
                      !.nextCollId = FIRST_COLL_ID + 1,
                      !.enemies = << [EnemyStomp(Enemy(FIRST_ENEMY_ID, "Goomba", Px(300),
                                                       Px(GROUND_TOP - EnemyH("Goomba")))).e
                                        EXCEPT !.deathTimer = dt] >>,
                      !.nextEnemyId = FIRST_ENEMY_ID + 1]
       IN G = [i \in Inst |->
                 IF i = HOST THEN [host EXCEPT !.syncTimer = st]
                 ELSE applyStateSync([Started[CLIENT] EXCEPT !.peerConnected = TRUE,
                                                            !.frame = 30],
                                     StateMsg(host))]
  /\ chan = [i \in Inst |-> {}]
  /\ timers = [i \in Inst |-> [l \in 0..(LEVEL_COUNT - 1) |-> 0]]
  /\ ticks = MaxCullTicks
  /\ last = [type |-> "none"]
  /\ prevIds = {}
  /\ inMax = [frame |-> 0, keys |-> NoInput]
  /\ consec = 0
  /\ page = [i \in Inst |-> PageOpen]
  /\ arg = NoCall
  /\ ret = NoCall

\* A tick of a participant whose own player stays on the ground or comes down on the
\* mushroom, with or without a shot; a message handed over.
NextCull ==
  \/ \E i \in Inst : \E keys \in {NoInput, Click} : \E drop \in Drops :
     \E m \in {NoMove, [moved |-> TRUE, x |-> Px(640), y |-> Px(GROUND_TOP - SMALL_H),
                        vy |-> 0, hits |-> <<>>]} :
       JumpTick(i, keys, drop, m, NoMove)
  \/ \E i \in Inst : \E m \in chan[i] : Deliver(i, m)

SpecCull == InitCull /\ [][NextCull]_vars

\* A step in which participant i ran update() while Playing.
Ticked(i) == G'[i].frame = G[i].frame + 1

\* The ids of the dead entries of a collection.
DeadIds(list) == { list[k].id : k \in { j \in 1..Len(list) : list[j].dead } }

\* C26: on host and client an entity that is dead when a tick of its instance starts has
\* left its collection when the tick ends (coin, power-up, weapon crate, projectile,
\* explosion), an enemy once its death animation has run for 60 ticks; and a host enemy
\* is not removed before that.
C26_DeadEntitiesLeave ==
  [][ \A i \in Inst : Ticked(i) =>
        /\ DeadIds(G[i].coins) \cap SeqIds(G'[i].coins) = {}
        /\ DeadIds(G[i].powerUps) \cap SeqIds(G'[i].powerUps) = {}
        /\ DeadIds(G[i].weaponCrates) \cap SeqIds(G'[i].weaponCrates) = {}
        /\ DeadIds(G[i].projectileList) \cap SeqIds(G'[i].projectileList) = {}
        /\ DeadIds(G[i].explosions) \cap SeqIds(G'[i].explosions) = {}
        /\ \A k \in 1..Len(G[i].enemies) :
             LET e == G[i].enemies[k]
             IN e.dead =>
                  /\ e.deathTimer >= 60 => e.id \notin SeqIds(G'[i].enemies)
                  /\ (i = HOST /\ e.deathTimer < 60) => e.id \in SeqIds(G'[i].enemies) ]_vars

\* ------------------------------------------------- the host before and after the join
MaxSyncTicks == 9

\* The host after startGame(0, null) and setNet: Playing, no peer yet. ret keeps the
\* instance before the last tick, the messages of that tick, and n, the ticks run with a
\* peer connected.
InitPeriod ==
  /\ Parked
  /\ arg = NoCall
  /\ ret = [called |-> FALSE, n |-> 0, out |-> <<>>, before |-> G[HOST]]

\* requestAnimationFrame -> tick() -> update() of the host
PeriodTick(keys, drop) ==
  /\ page[HOST].rafId
  /\ G[HOST].frame < MaxSyncTicks
  /\ G[HOST].state = "playing"
  /\ \E r \in {update(G[HOST], keys, drop)} :
       /\ Emit(HOST, r)
       /\ ret' = [called |-> TRUE, out |-> r.out, before |-> G[HOST],
                  n |-> IF G[HOST].peerConnected THEN ret.n + 1 ELSE ret.n]
  /\ UNCHANGED <<ticks, last, prevIds, inMax, consec, page, arg>>

\* net.onConnected -> game.onPeerJoined()
PeerJoined ==
  /\ ~G[HOST].peerConnected
  /\ \E r \in {onPeerJoined(Step(G[HOST]))} : Emit(HOST, r)
  /\ ret' = [ret EXCEPT !.called = FALSE]
  /\ UNCHANGED <<ticks, last, prevIds, inMax, consec, page, arg>>

NextPeriod ==
  \/ \E keys \in Keys : \E drop \in Drops : PeriodTick(keys, drop)
  \/ PeerJoined

SpecPeriod == InitPeriod /\ [][NextPeriod]_vars

\* The messages of one type among those of the last tick.
SentOf(type) == SelectSeq(ret.out, LAMBDA m : m.type = type)

\* C27: the sync counter of the host stays in 0..2 between ticks; a tick of the host
\* with a peer connected sends one STATE message if it is the 3rd, 6th, ... such tick
\* (the counter is then 0 again) and none otherwise; a tick with no peer connected sends
\* no STATE and no INPUT message.
C27_StateEveryThirdTick ==
  /\ G[HOST].syncTimer \in 0..2
  /\ ret.called =>
       IF ret.before.peerConnected
       THEN /\ Len(SentOf("state")) = IF ret.n % 3 = 0 THEN 1 ELSE 0
            /\ Len(SentOf("state")) = 1 => G[HOST].syncTimer = 0
       ELSE SentOf("state") = <<>> /\ SentOf("input") = <<>>

\* The second periodic STATE message, of a host that ticked before the peer joined.
C27_Witness ==
  /\ ret.called
  /\ ret.n = 6 /\ Len(SentOf("state")) = 1
  /\ G[HOST].frame > 6

\* ------------------------------------------------- the tab hidden and shown
MaxPageTicks == 3

\* The host runs with its peer joined; the client has its connection open and the 800 ms
\* timer of net.onConnected running, in a tab that is visible or not. arg.started tells
\* whether startGame(1) has run.
InitPage ==
  /\ G = [Started EXCEPT ![HOST].peerConnected = TRUE]
  /\ \E h \in BOOLEAN :
       page = [i \in Inst |->
                 IF i = CLIENT
                 THEN [rafId |-> FALSE, hidden |-> h, conn |-> "open", pending |-> 0]
                 ELSE PageOpen]
  /\ chan = [i \in Inst |-> {}]
  /\ timers = [i \in Inst |-> [l \in 0..(LEVEL_COUNT - 1) |-> 0]]
  /\ ticks = MaxPageTicks
  /\ last = [type |-> "none"]
  /\ prevIds = {}
  /\ inMax = [frame |-> 0, keys |-> NoInput]
  /\ consec = 0
  /\ arg = [started |-> FALSE]
  /\ ret = NoCall

\* setTimeout(() => startGame(1), 800): the listener is added and loop() requests a frame
\* and runs game.tick().
StartGame(keys, drop) ==
  /\ ~arg.started
  /\ arg' = [started |-> TRUE]
  /\ page' = [page EXCEPT ![CLIENT].rafId = TRUE, ![CLIENT].pending = @ + 1]
  /\ ticks > 0
  /\ \E r \in {update(G[CLIENT], keys, drop)} : Emit(CLIENT, r)
  /\ ticks' = ticks - 1
  /\ UNCHANGED <<last, prevIds, inMax, consec, ret>>

\* The page of participant i has its game: its listeners are registered.
Running(i) == i = HOST \/ arg.started

\* The browser runs frame callbacks of a visible document only.
NextPage ==
  \/ \E i \in Inst : \E keys \in Keys : \E drop \in Drops :
       Running(i) /\ ~page[i].hidden /\ Tick(i, keys, drop)
  \/ \E keys \in Keys : \E drop \in Drops : StartGame(keys, drop)
  \/ \E i \in Inst : \E m \in chan[i] : Running(i) /\ Deliver(i, m)
  \/ Close
  \/ \E i \in Inst : Running(i) /\ OnClose(i)
  \/ \E i \in Inst : Running(i) /\ Hide(i)
  \/ \E i \in Inst : \E keys \in Keys : \E drop \in Drops : Running(i) /\ Show(i, keys, drop)

SpecPage == InitPage /\ [][NextPage]_vars

\* C28: a tick of a participant runs in a visible document only; at most one frame
\* callback of a participant is pending; and a step that makes the document visible
\* again leaves exactly one requested, with rafId set.
C28_OneLoopWhileVisible ==
  [][ \A i \in Inst :
        /\ Ticked(i) => ~page'[i].hidden
        /\ page'[i].pending <= 1
        /\ (page[i].hidden /\ ~page'[i].hidden) => (page'[i].pending = 1 /\ page'[i].rafId)
    ]_vars

\* ------------------------------------------------- explosions and players
\* Where the players stand around the blast of the world at (640, GROUND_TOP - 5), 17
\* ticks old and of radius 61 px: far to the left, at the edge of the radius, beside the centre, on it, in
\* the air above it.
BlastSpots ==
  { [x |-> Px(500), y |-> Px(GROUND_TOP - SMALL_H)],
    [x |-> Px(640 - 61) - Px(SMALL_W) \div 2, y |-> Px(GROUND_TOP - 5) - Px(SMALL_H) \div 2],
    [x |-> Px(612), y |-> Px(GROUND_TOP - SMALL_H)],
    [x |-> Px(640) - Px(SMALL_W) \div 2, y |-> Px(GROUND_TOP - 5) - Px(SMALL_H) \div 2],
    [x |-> Px(640), y |-> Px(GROUND_TOP - 3 * TILE)] }

\* The instance before the explosion loop of _handleCollisions: the world with its blast
\* and the enemies within its radius, both players somewhere around it.
InitBlast ==
  /\ Parked
  /\ \E pw \in {POWER_SMALL, POWER_BIG, POWER_FIRE} : \E iv \in {0, INVULN_FRAMES} :
     \E lv \in {1, START_LIVES} : \E a \in BlastSpots : \E b \in BlastSpots :
     \E en \in WorldEnemies :
       arg = [s |-> [World(0, pw, en, "blast") EXCEPT
                       !.players[0].x = a.x, !.players[0].y = a.y,
                       !.players[0].invuln = iv, !.players[0].lives = lv,
                       !.players[1].x = b.x, !.players[1].y = b.y,
                       !.players[1].power = pw,
                       !.explosions[1].timer = BLAST_TICKS - 17,
                       !.explosions[1].radius = (Px(BLAST_RADIUS) * 17) \div BLAST_TICKS]]
  /\ ret = [called |-> FALSE, s |-> arg.s, log |-> <<>>]

\* _handleCollisions: for (const expl of this.explosions) { ... }
ExplosionPass ==
  /\ ~ret.called
  /\ \E r \in {BlastLoop(Step(arg.s), 1, 1)} : ret' = [called |-> TRUE, s |-> r.s, log |-> r.log]
  /\ UNCHANGED <<gameVars, arg>>

SpecBlast == InitBlast /\ [][ExplosionPass]_vars

\* The centre of player j of the call lies within the radius of its explosion.
InBlast(j) ==
  overlapsPoint(arg.s.explosions[1], arg.s.players[j].x + Px(SMALL_W) \div 2,
                arg.s.players[j].y + Px(SMALL_H) \div 2)

\* C29: the explosion loop of the collision pass leaves power, dead flag, invulnerability
\* and lives of both players as they were, wherever players and explosion are.
C29_BlastSparesPlayers ==
  ret.called =>
    \A j \in {0, 1} :
      /\ ret.s.players[j].power = arg.s.players[j].power
      /\ ret.s.players[j].dead = arg.s.players[j].dead
      /\ ret.s.players[j].invuln = arg.s.players[j].invuln
      /\ ret.s.players[j].lives = arg.s.players[j].lives

\* The loop has run and damaged an enemy, with a small player on its last life, not
\* invulnerable, at the centre of the blast.
C29_Witness ==
  /\ ret.called
  /\ \E k \in 1..Len(ret.log) : ret.log[k].kind = "blast"
  /\ InBlast(0) /\ InBlast(1)
  /\ arg.s.players[0].x + Px(SMALL_W) \div 2 = arg.s.explosions[1].cx
  /\ arg.s.players[0].power = POWER_SMALL
  /\ arg.s.players[0].invuln = 0 /\ arg.s.players[0].lives = 1

\* ------------------------------------------------- resolveEntity: the order of the axes
\* The cells of the returned list.
CellsHit == { <<ret.blocksHit[k].col, ret.blocksHit[k].row>> : k \in 1..Len(ret.blocksHit) }

\* C30: for a rising entity (vy < 0) the horizontal pass starts from the row the vertical
\* pass left the box in, for any other entity from the row it was in at the call; and
\* every solid tile the box of a rising entity meets when moved by vy alone is in the
\* returned list, whatever vx.
C30_RisingHitRegisters ==
  ret.called =>
    /\ ret.ent.hitWall <=>
         \E c \in arg.solid :
           BoxMeetsTile(arg.ent.x + arg.ent.vx,
                        IF arg.ent.vy < 0 THEN ret.ent.y ELSE arg.ent.y,
                        arg.ent.w, arg.ent.h, c)
    /\ arg.ent.vy < 0 =>
         \A c \in arg.solid :
           BoxMeetsTile(arg.ent.x, arg.ent.y + arg.ent.vy, arg.ent.w, arg.ent.h, c)
             => c \in CellsHit

\* ------------------------------------------------- Level.hitBlock
MaxHits == 3

\* A level of two columns and two rows: r.tiles[<<col, row>>], r.blockItems a function
\* from the cells of the M and F blocks of the map to "M" / "F".
HitCells == {0, 1} \X {0, 1}

\* Level.get(col, row): air outside the map.
LevelGet(lv, col, row) ==
  IF row < 0 \/ row >= lv.rows \/ col < 0 \/ col >= lv.cols THEN T_AIR
  ELSE lv.tiles[<<col, row>>]

\* blockItems.delete(key)
MapDelete(f, key) == [c \in DOMAIN f \ {key} |-> f[c]]

\* hitBlock that leaves the question block as it is.
LevelHitBlockUnspent(lv, col, row) ==
  LET tile == LevelGet(lv, col, row)
      key  == <<col, row>>
  IN IF tile = T_QBLOCK
     THEN [lv   |-> [lv EXCEPT !.blockItems = MapDelete(@, key)],
           item |-> IF key \in DOMAIN lv.blockItems THEN lv.blockItems[key] ELSE "C"]
     ELSE IF tile = T_BRICK THEN [lv |-> lv, item |-> "BRICK"]
     ELSE [lv |-> lv, item |-> "null"]

\* Level.hitBlock(col, row): the level after the call and the value returned.
LevelHitBlock(lv, col, row) ==
  LET tile == LevelGet(lv, col, row)
      key  == <<col, row>>
  IN IF tile = T_QBLOCK
     THEN [lv   |-> [lv EXCEPT !.tiles[key] = T_QUSED, !.blockItems = MapDelete(@, key)],
           item |-> IF key \in DOMAIN lv.blockItems THEN lv.blockItems[key] ELSE "C"]
     ELSE IF tile = T_BRICK THEN [lv |-> lv, item |-> "BRICK"]
     ELSE [lv |-> lv, item |-> "null"]

\* Levels as the Level constructor leaves them: the upper row any two tiles, ground below;
\* the item map has an entry for some of the question blocks.
HitLevels ==
  { [tiles |-> [c \in HitCells |-> IF c[2] = 1 THEN T_GROUND ELSE IF c[1] = 0 THEN a ELSE b],
     blockItems |-> items, cols |-> 2, rows |-> 2] :
      a \in {T_AIR, T_BRICK, T_QBLOCK, T_QUSED},
      b \in {T_BRICK, T_QBLOCK, T_QUSED},
      items \in { [c \in {} |-> "M"],
                  [c \in { <<0, 0>> } |-> "M"],
                  [c \in { <<1, 0>> } |-> "F"] } }

\* arg: the level, the events of the player, the yields of its question blocks so far;
\* ret: the last call.
InitHit ==
  /\ Parked
  /\ \E lv \in HitLevels :
       /\ \A c \in DOMAIN lv.blockItems : lv.tiles[c] = T_QBLOCK
       /\ arg = [lv |-> lv, first |-> lv, events |-> <<>>, yields |-> <<>>, n |-> 0]
  /\ ret = NoCall

\* Player._resolveCollisions: const item = level.hitBlock(col, row);
\* if (item) this._onBlockHit(item, col, row, level), which queues BLOCK_HIT.
HitCell(col, row) ==
  /\ arg.n < MaxHits
  /\ \E hb \in {LevelHitBlock(arg.lv, col, row)} :
       /\ arg' = [arg EXCEPT
                    !.lv = hb.lv,
                    !.events = IF hb.item = "null" THEN @
                               ELSE Append(@, [type |-> "BLOCK_HIT", item |-> hb.item,
                                               col |-> col, row |-> row]),
                    !.yields = IF hb.item \in {"null", "BRICK"} THEN @
                               ELSE Append(@, [cell |-> <<col, row>>, item |-> hb.item]),
                    !.n = @ + 1]
       /\ ret' = [called |-> TRUE, col |-> col, row |-> row, item |-> hb.item,
                  before |-> arg.lv, events |-> arg.events]
  /\ UNCHANGED gameVars

NextHit == \E col \in -1..2 : \E row \in -1..2 : HitCell(col, row)

SpecHit == InitHit /\ [][NextHit]_vars

\* The yields of the question block at cell c.
YieldsOf(c) == SelectSeq(arg.yields, LAMBDA y : y.cell = c)

\* C31: a hit on a cell that holds neither a question block nor a brick, spent blocks and
\* cells outside the map included, returns null and leaves tiles, item map and the
\* player's events as they were; and a question block gives an item at its first hit
\* (the item of the map, a coin if it has none) and at no later hit.
C31_NonHittableIsNoOp ==
  /\ ret.called =>
       /\ LevelGet(ret.before, ret.col, ret.row) \notin {T_QBLOCK, T_BRICK} =>
            /\ ret.item = "null"
            /\ arg.lv = ret.before
            /\ arg.events = ret.events
       /\ ret.item = "null" => arg.events = ret.events
  /\ \A c \in HitCells :
       /\ Len(YieldsOf(c)) <= 1
       /\ (arg.first.tiles[c] = T_QBLOCK /\ arg.lv.tiles[c] # T_QBLOCK) =>
            /\ Len(YieldsOf(c)) = 1
            /\ YieldsOf(c)[1].item
                 = IF c \in DOMAIN arg.first.blockItems THEN arg.first.blockItems[c] ELSE "C"
       /\ arg.first.tiles[c] # T_QBLOCK => YieldsOf(c) = <<>>

\* The mushroom block was hit, gave its mushroom, and was hit again for nothing; a hit
\* outside the map came in between.
C31_Witness ==
  /\ ret.called /\ arg.n = 3
  /\ ret.col = 0 /\ ret.row = 0 /\ ret.item = "null"
  /\ ret.before.tiles[<<0, 0>>] = T_QUSED
  /\ arg.yields = << [cell |-> <<0, 0>>, item |-> "M"] >>
  /\ Len(arg.events) = 1

\* ------------------------------------------------- reloads after a game over
\* C32: no instance that has reloaded to the first level after a game over and played on
\* (it is Playing on the first level at a frame count above 0 and below that of the
\* session before the game over) is reloaded to the first level again.
C32_OneReloadPerGameOver ==
  [][ \A i \in Inst :
        ~(/\ G[i].state = "playing" /\ G[i].levelIndex = 0
          /\ 0 < G[i].frame /\ G[i].frame < SessionFrame
          /\ G'[i].frame = 0 /\ G'[i].levelIndex = 0)
    ]_vars

\* ------------------------------------------------- a client joins a playing host
MaxJoinTicks == 5

\* The host plays alone on level 0, at the goal line or 90 ticks past it; the client's
\* page has no game yet. ret.pending is Network._pending of the host: what it sent with
\* no connection open.
InitJoin ==
  /\ \E w \in {0, WIN_TICKS} :
       /\ G = [Started EXCEPT
                 ![HOST].frame = SessionFrame,
                 ![HOST].winTimer = w,
                 ![HOST].players[0].x = IF w > 0 THEN GoalX(0) + WALK_STEP ELSE GoalX(0)]
       /\ consec = w
  /\ page = [i \in Inst |->
               IF i = HOST THEN [PageOpen EXCEPT !.conn = "none"]
               ELSE [rafId |-> FALSE, hidden |-> FALSE, conn |-> "none", pending |-> 0]]
  /\ chan = [i \in Inst |-> {}]
  /\ timers = [i \in Inst |-> [l \in 0..(LEVEL_COUNT - 1) |-> 0]]
  /\ ticks = MaxJoinTicks
  /\ last = [type |-> "none"]
  /\ prevIds = {}
  /\ inMax = [frame |-> 0, keys |-> NoInput]
  /\ arg = [started |-> FALSE]
  /\ ret = [called |-> FALSE, pending |-> <<>>]

\* A tick of the host with no connection: Network.send pushes to _pending.
SoloTick(keys, drop) ==
  /\ page[HOST].conn = "none"
  /\ ticks > 0
  /\ G[HOST].state = "playing"
  /\ \E r \in {update(G[HOST], keys, drop)} :
       /\ G' = [G EXCEPT ![HOST] = r.s]
       /\ timers' = [timers EXCEPT ![HOST] = StartTimers(@, r.tm, 1)]
       /\ ret' = [ret EXCEPT !.pending = @ \o r.out]
       /\ consec' = IF AtGoal(r.s) THEN consec + 1 ELSE 0
  /\ ticks' = ticks - 1
  /\ UNCHANGED <<chan, last, prevIds, inMax, page, arg>>

\* The timer of _onLevelClear fires on the host with no connection.
SoloTimer(l) ==
  /\ page[HOST].conn = "none"
  /\ timers[HOST][l] > 0
  /\ \E r \in {Send(Step(resetAndReload(G[HOST], l)), [type |-> "restart", level |-> l])} :
       /\ G' = [G EXCEPT ![HOST] = r.s]
       /\ ret' = [ret EXCEPT !.pending = @ \o r.out]
  /\ timers' = [timers EXCEPT ![HOST][l] = @ - 1]
  /\ consec' = 0
  /\ UNCHANGED <<chan, ticks, last, prevIds, inMax, page, arg>>

\* conn.on('open') on the host: the pending messages are sent, then onConnected ->
\* game.onPeerJoined(). The client's onConnected starts the 800 ms timer of startGame(1).
\* The peer joins a host that is Playing and not past the goal line.
ConnOpen ==
  /\ page[HOST].conn = "none"
  /\ G[HOST].state = "playing" /\ ~AtGoal(G[HOST])
  /\ page' = [i \in Inst |-> [page[i] EXCEPT !.conn = "open"]]
  /\ \E r \in {onPeerJoined(Step(G[HOST]))} :
       /\ G' = [G EXCEPT ![HOST] = r.s]
       /\ chan' = [chan EXCEPT ![CLIENT] = Put(Put(@, ret.pending, 1), r.out, 1)]
  /\ ret' = [ret EXCEPT !.pending = <<>>]
  /\ UNCHANGED <<timers, ticks, last, prevIds, inMax, consec, arg>>

\* conn.on('data') on the client before its Game exists: if (this.onMessage) is false.
EarlyData(m) ==
  /\ ~arg.started
  /\ m \in chan[CLIENT]
  /\ chan' = [chan EXCEPT ![CLIENT] = @ \ {m}]
  /\ UNCHANGED <<G, timers, ticks, last, prevIds, inMax, consec, page, fnVars>>

\* conn.on('data') -> _handleNetMsg on the client; last keeps the first STATE applied.
RecvJoin(m) ==
  /\ arg.started
  /\ m \in chan[CLIENT]
  /\ G' = [G EXCEPT ![CLIENT] = handleNetMsg(@, m)]
  /\ chan' = [chan EXCEPT ![CLIENT] = @ \ {m}]
  /\ last' = IF m.type = "state" /\ last.type = "none" THEN m ELSE last
  /\ UNCHANGED <<timers, ticks, prevIds, inMax, consec, page, fnVars>>

NextJoin ==
  \/ \E keys \in Keys : \E drop \in Drops : SoloTick(keys, drop)
  \/ \E l \in 0..(LEVEL_COUNT - 1) : SoloTimer(l)
  \/ ConnOpen
  \/ \E m \in chan[CLIENT] : EarlyData(m)
  \/ \E keys \in Keys : \E drop \in Drops : page[CLIENT].conn = "open" /\ StartGame(keys, drop)
  \/ \E m \in chan[CLIENT] : RecvJoin(m)
  \/ \E m \in chan[HOST] : Deliver(HOST, m)
  \/ \E i \in Inst : \E keys \in Keys : \E drop \in Drops :
       page[i].conn = "open" /\ Running(i) /\ Tick(i, keys, drop)

SpecJoin == InitJoin /\ [][NextJoin]_vars

\* C33: when the client applies its first STATE message after the join, with no RESTART
\* on the way to it, both instances are on the same level.
C33_SameLevelAfterJoin ==
  [][ (/\ last.type = "none" /\ last'.type = "state"
       /\ \A m \in chan'[CLIENT] : m.type # "restart")
      => G'[CLIENT].levelIndex = G'[HOST].levelIndex
    ]_vars

\* ------------------------------------------------- crate ids over a reload
MaxIdTicks == 4

\* A session in progress on level 0 with its six crates: P1 lies dead on its last life,
\* two ticks short of the end of its death timer; P2 is alive.
InitIds ==
  /\ G = [i \in Inst |->
            [Started[i] EXCEPT
               !.peerConnected = TRUE,
               !.frame = SessionFrame,
               !.players[0] = [Dying(@) EXCEPT !.deadTimer = DEAD_TICKS - 1]]]
  /\ chan = [i \in Inst |-> {}]
  /\ timers = [i \in Inst |-> [l \in 0..(LEVEL_COUNT - 1) |-> 0]]
  /\ ticks = MaxIdTicks
  /\ last = [type |-> "none"]
  /\ prevIds = {}
  /\ inMax = [frame |-> 0, keys |-> NoInput]
  /\ consec = 0
  /\ page = [i \in Inst |-> PageOpen]
  /\ arg = NoCall
  /\ ret = NoCall

\* Ticks in which P2 stays or jumps to the crates and clicks or not, timers, messages.
NextIds ==
  \/ \E i \in Inst : \E keys \in {NoInput, Click} : \E drop \in Drops : \E n \in CrateSpots :
       (i = HOST \/ n = NoMove) /\ JumpTick(i, keys, drop, NoMove, n)
  \/ \E l \in 0..(LEVEL_COUNT - 1) : TimerFire(HOST, l)
  \/ \E i \in Inst : \E m \in chan[i] : Deliver(i, m)

SpecIds == InitIds /\ [][NextIds]_vars

\* The instance has reloaded since the start of the run.
Reloaded(i) == G[i].frame < SessionFrame

\* C34: when host and client have loaded the same level the same number of times (both
\* are in their first load, or both have reloaded and no RESTART is on its way), a crate of
\* the host and a crate of the client at the same spawn place have the same id.
C34_CrateIdsAgree ==
  (/\ Reloaded(HOST) <=> Reloaded(CLIENT)
   /\ G[HOST].levelIndex = G[CLIENT].levelIndex
   /\ \A m \in chan[CLIENT] : m.type # "restart")
  => \A a \in 1..Len(G[HOST].weaponCrates) : \A b \in 1..Len(G[CLIENT].weaponCrates) :
       (/\ G[HOST].weaponCrates[a].x = G[CLIENT].weaponCrates[b].x
        /\ G[HOST].weaponCrates[a].y = G[CLIENT].weaponCrates[b].y)
       => G[HOST].weaponCrates[a].id = G[CLIENT].weaponCrates[b].id

\* ------------------------------------------------- clicks of the client's player
MaxClickTicks == 5

\* A session on level 0 in which P2 holds a rocket launcher on both instances; no click
\* has been made and the mouse button is up.
InitClick ==
  /\ G = [i \in Inst |->
            [Started[i] EXCEPT !.peerConnected = TRUE, !.frame = 30,
                               !.players[1] = addItem(@, ITEM_ROCKET)]]
  /\ chan = [i \in Inst |-> {}]
  /\ timers = [i \in Inst |-> [l \in 0..(LEVEL_COUNT - 1) |-> 0]]
  /\ ticks = MaxClickTicks
  /\ last = [type |-> "none"]
  /\ prevIds = {}
  /\ inMax = [frame |-> 0, keys |-> NoInput]
  /\ consec = 0
  /\ page = [i \in Inst |-> PageOpen]
  /\ arg = [clicks |-> 0, wasDown |-> FALSE]
  /\ ret = NoCall

\* Input.update and Game.update of the client: mouseClicked is true only in the first
\* tick of a press (mouseDown && !_mouseWasDown).
ClientTick(down) ==
  /\ ticks > 0
  /\ G[CLIENT].state = "playing"
  /\ \E keys \in {[NoInput EXCEPT !.mouseDown = down,
                                  !.mouseClicked = down /\ ~arg.wasDown]} :
       /\ \E r \in {update(G[CLIENT], keys, ITEM_ROCKET)} : Emit(CLIENT, r)
       /\ arg' = [clicks  |-> arg.clicks + (IF keys.mouseClicked THEN 1 ELSE 0),
                  wasDown |-> down]
  /\ ticks' = ticks - 1
  /\ UNCHANGED <<last, prevIds, inMax, consec, page, ret>>

NextClick ==
  \/ \E down \in BOOLEAN : ClientTick(down)
  \/ Tick(HOST, NoInput, ITEM_ROCKET)
  \/ \E i \in Inst : \E m \in chan[i] : Deliver(i, m)

SpecClick == InitClick /\ [][NextClick]_vars

\* Rockets the host has fired for P2: the rounds gone from its launcher (the slot leaves
\* the inventory with the last round).
HostShots ==
  LET inv == G[HOST].players[1].inventory
  IN IF inv = <<>> THEN ITEM_MAX_AMMO(ITEM_ROCKET)
     ELSE ITEM_MAX_AMMO(ITEM_ROCKET) - inv[1].ammo

\* C35: the host never fires more rockets for the client's player than that player has
\* clicked: one click is fired at most once, however host ticks and INPUT arrivals
\* interleave.
C35_AtMostOneShotPerClick == HostShots <= arg.clicks


\* C36: a rocket or grenade that leaves the projectile list in a tick having gone off
\* has produced exactly one Explosion (the stretch holds one projectile at most, so the
\* explosions created in that tick are its own).
C36_OneExplosionPerProjectile ==
  \A k \in 1..Len(ret.log) :
    (/\ ret.log[k].kind = "gone"
     /\ ret.log[k].proj \in {ITEM_ROCKET, ITEM_GRENADE}
     /\ ret.log[k].exploded)
    => Len(Logged("explosion")) = 1


\* ------------------------------------------------- a spent block and the snapshots
MaxSpentTicks == 4

\* A session in progress on level 0, both connected and Playing, the players on the
\* ground under the blocks, every block unspent; nothing in flight. arg keeps the host
\* frame in which the question block was spent and the frame of the newest snapshot the
\* client has applied.
InitSpent ==
  /\ G = [i \in Inst |->
            [Started[i] EXCEPT
               !.peerConnected = TRUE,
               !.frame = 30,
               !.players[0].x = Px(612), !.players[0].y = Px(GROUND_TOP - SMALL_H),
               !.players[1].x = Px(644), !.players[1].y = Px(GROUND_TOP - SMALL_H)]]
  /\ chan = [i \in Inst |-> {}]
  /\ timers = [i \in Inst |-> [l \in 0..(LEVEL_COUNT - 1) |-> 0]]
  /\ ticks = MaxSpentTicks
  /\ last = [type |-> "none"]
  /\ prevIds = {}
  /\ inMax = [frame |-> 0, keys |-> NoInput]
  /\ consec = 0
  /\ page = [i \in Inst |-> PageOpen]
  /\ arg = [spentAt |-> 0, applied |-> 0]
  /\ ret = NoCall

\* requestAnimationFrame -> tick() -> update() of participant i, its player ending the
\* tick at m; every message it sends stays in flight until it is handed over.
SpentTick(i, m) ==
  /\ ticks > 0
  /\ G[i].state = "playing"
  /\ \E r \in {updateMoved(G[i], NoInput, ITEM_ROCKET,
                           [j \in {0, 1} |-> IF j = i THEN m ELSE NoMove])} :
       /\ G' = [G EXCEPT ![i] = r.s]
       /\ chan' = [chan EXCEPT ![1 - i] = @ \cup {r.out[k] : k \in 1..Len(r.out)}]
       /\ timers' = [timers EXCEPT ![i] = StartTimers(@, r.tm, 1)]
       /\ arg' = IF /\ i = HOST
                    /\ G[HOST].tiles[<<19, 5>>] = T_QBLOCK
                    /\ r.s.tiles[<<19, 5>>] = T_QUSED
                 THEN [arg EXCEPT !.spentAt = r.s.frame] ELSE arg
  /\ ticks' = ticks - 1
  /\ UNCHANGED <<last, prevIds, inMax, consec, page, ret>>

\* conn.on('data') -> _handleNetMsg of participant i with message m.
SpentRecv(i, m) ==
  /\ m \in chan[i]
  /\ G' = [G EXCEPT ![i] = handleNetMsg(@, m)]
  /\ chan' = [chan EXCEPT ![i] = @ \ {m}]
  /\ arg' = IF i = CLIENT /\ m.type = "state" /\ m.frame > arg.applied
            THEN [arg EXCEPT !.applied = m.frame] ELSE arg
  /\ UNCHANGED <<timers, ticks, last, prevIds, inMax, consec, page, ret>>

NextSpent ==
  \/ \E i \in Inst : \E m \in HeadSpots : SpentTick(i, m)
  \/ \E i \in Inst : \E m \in chan[i] : SpentRecv(i, m)

SpecSpent == InitSpent /\ [][NextSpent]_vars

\* C37: once the client has applied a snapshot the host sent in or after the tick that
\* spent the question block, and nothing more is in flight to it, the client's copy of
\* the cell is spent too.
C37_ClientCellSpent ==
  (/\ arg.spentAt > 0
   /\ arg.applied >= arg.spentAt
   /\ chan[CLIENT] = {})
  => G[CLIENT].tiles[<<19, 5>>] = T_QUSED


\* ------------------------------------------- the stages of a mirrored enemy
\* Where the host's enemy stands: whole pixels and fractions of a pixel.
MirrorXs == { Px(c * TILE) + d : c \in {18, 21, 30}, d \in {0, 20, 40} }

\* A Koopa, a Lizard or a Flyer of the host as its constructor leaves it.
InitMirror ==
  /\ Parked
  /\ \E t \in {"Koopa", "Lizard", "Flyer"} : \E x \in MirrorXs :
       arg = [e |-> Enemy(FIRST_ENEMY_ID, t, x, Px(GROUND_TOP - EnemyH(t)))]
  /\ ret = NoCall

\* The host's enemy is stomped: it goes on to its next stage.
HostStomp ==
  /\ ret = NoCall
  /\ ~arg.e.dead
  /\ arg' = [e |-> EnemyStomp(arg.e).e]
  /\ UNCHANGED <<ret, gameVars>>

\* serialize() on the host, _applyStateSync on a client without this enemy (new
\* Variant(es.x, es.y), applyState(es)); then the same stomp on the host's enemy and on
\* the mirror.
CallMirror ==
  /\ ret = NoCall
  /\ \E es \in {EnemySerialize(arg.e)} :
       ret' = [called |-> TRUE,
               host   |-> EnemyStomp(arg.e),
               mirror |-> EnemyStomp(EnemyApplyState(Enemy(es.id, es.type, es.x, es.y), es))]
  /\ UNCHANGED <<arg, gameVars>>

NextMirror == HostStomp \/ CallMirror

SpecMirror == InitMirror /\ [][NextMirror]_vars

\* C38: the same stomp on a host enemy (Koopa, Lizard or Flyer, in any stage) and on its
\* fresh mirror returns the same points and leaves the same dead flag and height.
C38_MirrorKeepsStage ==
  ret.called =>
    /\ ret.mirror.pts = ret.host.pts
    /\ ret.mirror.e.dead = ret.host.e.dead
    /\ ret.mirror.e.h = ret.host.e.h


\* ------------------------------------------------- the stages of a Koopa
\* The Koopas of an instance.
Koopas(s) == { s.enemies[k] : k \in { j \in 1..Len(s.enemies) : s.enemies[j].type = "Koopa" } }

\* C39: on the host a Koopa with shellMoving is shelled, and from one state to the next
\* a Koopa that is shelled stays shelled and a shell that moves keeps moving, whatever
\* updates, stomps and kills the tick holds.
C39_KoopaStagesAdvance ==
  [][ /\ \A e \in Koopas(G[HOST]) \cup Koopas(G'[HOST]) : e.shellMoving => e.shelled
      /\ \A e \in Koopas(G[HOST]) : \A f \in Koopas(G'[HOST]) :
           f.id = e.id => /\ e.shelled => f.shelled
                          /\ e.shellMoving => f.shellMoving
    ]_vars

\* A tick in which a shell at rest was kicked, one in which a walking Koopa went into
\* its shell, or one in which a shelled Koopa was killed: the Koopa is there after it.
C39_Witness ==
  /\ ret.called
  /\ \E e \in Koopas(ret.before) : \E f \in Koopas(G[HOST]) :
       /\ f.id = e.id
       /\ e.shelled /\ ~e.shellMoving /\ ~e.dead
       /\ f.shellMoving /\ f.shelled


\* ------------------------------------------------- lives and deaths on the host
MaxLivesTicks == 3

\* A player in the session: alive and small beside the Goomba's column, or dead with
\* lv lives left, its death timer t ticks old.
LivesPlayers(j) ==
  LET p == [Started[HOST].players[j] EXCEPT !.x = Px(600 + 20 * j),
                                            !.y = Px(GROUND_TOP - SMALL_H)]
  IN { [p EXCEPT !.lives = lv] : lv \in 1..START_LIVES } \cup
     { [p EXCEPT !.lives = lv, !.dead = TRUE, !.deadTimer = t] :
         lv \in 1..START_LIVES, t \in {DEAD_TICKS - 1, DEAD_TICKS} }

\* Where a walk leaves a living player at the end of a tick: where it was, or against
\* the Goomba.
LivesSpots ==
  { NoMove,
    [moved |-> TRUE, x |-> Px(654), y |-> Px(GROUND_TOP - SMALL_H), vy |-> 0, hits |-> <<>>] }

\* A session in progress on level 0 with a Goomba on the ground at column 21.
InitLives ==
  /\ \E p1 \in LivesPlayers(0) : \E p2 \in LivesPlayers(1) :
       G = [i \in Inst |->
              [Started[i] EXCEPT
                 !.peerConnected = TRUE,
                 !.frame = SessionFrame,
                 !.players = [j \in {0, 1} |-> IF j = 0 THEN p1 ELSE p2],
                 !.enemies = << [Enemy(FIRST_ENEMY_ID, "Goomba", Px(21 * TILE + 2), Px(GROUND_TOP))
                                   EXCEPT !.y = Px(GROUND_TOP - EnemyH("Goomba"))] >>,
                 !.nextEnemyId = FIRST_ENEMY_ID + 1]]
  /\ chan = [i \in Inst |-> {}]
  /\ timers = [i \in Inst |-> [l \in 0..(LEVEL_COUNT - 1) |-> 0]]
  /\ ticks = MaxLivesTicks
  /\ last = [type |-> "none"]
  /\ prevIds = {}
  /\ inMax = [frame |-> 0, keys |-> NoInput]
  /\ consec = 0
  /\ page = [i \in Inst |-> PageOpen]
  /\ arg = NoCall
  /\ ret = [called |-> FALSE, upd |-> [j \in {0, 1} |-> G[HOST].players[j]]]

\* requestAnimationFrame -> tick() -> update() of the host; ret keeps each player as its
\* own update() call left it, events not yet drained.
LivesTick(m, n) ==
  /\ ticks > 0
  /\ G[HOST].state = "playing"
  /\ \E r \in {updateMoved(G[HOST], NoInput, ITEM_ROCKET,
                           [j \in {0, 1} |-> IF j = 0 THEN m ELSE n])} :
       /\ Emit(HOST, r)
       /\ consec' = IF AtGoal(r.s) THEN consec + 1 ELSE 0
  /\ \E r1 \in {LocalStep(G[HOST], NoInput)} :
     \E r2 \in {RemoteStep(processItems(Moved(r1, 0, m), 0, NoInput, TRUE))} :
       ret' = [called |-> TRUE,
               upd |-> [j \in {0, 1} |-> IF j = 0 THEN r1.s.players[0] ELSE r2.s.players[1]]]
  /\ ticks' = ticks - 1
  /\ UNCHANGED <<last, prevIds, inMax, page, arg>>

NextLives ==
  \/ \E m \in LivesSpots : \E n \in LivesSpots : LivesTick(m, n)
  \/ TimerFire(HOST, 0)

SpecLives == InitLives /\ [][NextLives]_vars

\* The death of p is handled in the next update() of p.
Due(p) == p.dead /\ p.deadTimer + 1 > DEAD_TICKS /\ ~p.deathHandled

\* The GAME_OVER events in the queue of p.
GameOvers(p) == Len(SelectSeq(p.events, LAMBDA e : e.type = "GAME_OVER"))

\* C40: on the host a player's lives are never negative; in a tick a dead player whose
\* death is due and who has more than one life respawns with one life less, small and
\* invulnerable for INVULN_FRAMES, and queues no GAME_OVER; one on its last life stays
\* dead with 0 lives and queues exactly one GAME_OVER, and the game is over; and no other
\* player loses a life or queues a GAME_OVER in a tick.
C40_DeathHandledOnce ==
  [][ /\ \A j \in {0, 1} : G[HOST].players[j].lives >= 0 /\ G'[HOST].players[j].lives >= 0
      /\ HostTicked =>
           \A j \in {0, 1} :
             LET p == G[HOST].players[j]
                 u == ret'.upd[j]
                 q == G'[HOST].players[j]
             IN /\ Due(p) /\ p.lives > 1 =>
                     /\ ~q.dead /\ q.lives = p.lives - 1
                     /\ q.power = POWER_SMALL /\ q.invuln = INVULN_FRAMES
                     /\ GameOvers(u) = 0
                /\ Due(p) /\ p.lives <= 1 =>
                     /\ q.dead /\ q.lives = 0 /\ q.deathHandled
                     /\ GameOvers(u) = 1
                     /\ G'[HOST].state = "gameover"
                /\ ~Due(p) => q.lives = p.lives /\ GameOvers(u) = 0
    ]_vars

\* Both cases in one tick: one player has respawned with a life less, invulnerable, and
\* the other lies dead with no life left, its one GAME_OVER queued; the game is over.
C40_Witness ==
  /\ ret.called
  /\ G[HOST].state = "gameover"
  /\ \E j \in {0, 1} :
       /\ ~G[HOST].players[j].dead
       /\ G[HOST].players[j].lives = START_LIVES - 1
       /\ G[HOST].players[j].invuln = INVULN_FRAMES
       /\ G[HOST].players[1 - j].dead
       /\ G[HOST].players[1 - j].lives = 0
       /\ GameOvers(ret.upd[1 - j]) = 1

====
